---- MODULE Spec2Model ----
(***************************************************************************)
(* Model of the weather-station server's AI training path.                 *)
(*                                                                         *)
(* Two programs live in the repository and both are modelled:             *)
(*   - the richer server, src/.history/backend/app_20260112212641.py       *)
(*     (POST /api/train-model with the single-flight guard, the worker     *)
(*     _run_train and WeatherAIModel.train_model), specification Spec;     *)
(*   - the simpler server, src/backend/app.py (receive_sensor_data and    *)
(*     POST /api/train-model start train_model directly, save_model writes *)
(*     straight to the final paths), specification SpecLive.               *)
(* The two share the reading buffer, the in-memory model object and the    *)
(* files on disk; each specification only moves its own program.           *)
(***************************************************************************)
EXTENDS Integers, Sequences, FiniteSets, TLC

\* ---------------------------------------------------------------- bounds
\* Request slots of POST /api/train-model that may be in flight together.
NumReq == 2
\* Worker threads / training runs that may be started in one behaviour.
MaxRuns == 2
\* Readings accepted by receive_sensor_data on top of the initial buffer.
MaxReceive == 2
\* Process crashes (kill and restart) in one behaviour of the simpler server.
MaxCrashes == 1
\* Training buffers: readings beyond the minimum, head and tail lengths.
MaxExtra == 4
MaxHead == 1
MaxTail == 11
\* Readings in the history given to forecast_3h.
MaxHistory == 4
\* Rows of a training partition given to _oversample_minority on its own.
MaxOversampleRows == 4
\* Request threads of receive_sensor_data that may be at the append together.
NumPosts == 2
\* Rounds of the background_tasks loop in one behaviour.
MaxCleanups == 2
\* Calls of set_device_config, and request threads of ack_device_command.
MaxCommands == 2
NumAcks == 2

\* ------------------------------------------------------ program constants
MIN_AI_TRAIN_DATA == 50
ALLOW_AUTO_TRAIN_SINGLE_CLASS_THRESHOLD == 100
\* train_model's own literal minimum (len(local_data) < 50).
MIN_REAL_SAMPLES == 50
\* The simpler server: config MODEL_TRAINING_INTERVAL and the literals of
\* train_model / train_ai_model.
MODEL_TRAINING_INTERVAL == 50
LIVE_MIN_OWN_DATA == 30
LIVE_SAMPLE_COUNT == 200
LIVE_ENDPOINT_MIN_DATA == 10
LIVE_MIN_ROWS == 10
LIVE_ENDPOINT_PAD == 100

VARIABLES
    local_data,               \* the reading buffer (list of readings)
    trained,                  \* weather_ai.trained
    model,                    \* weather_ai.model : the run that fitted it (0: as constructed/loaded)
    scaler,                   \* weather_ai.scaler: the run that fitted it (0: as constructed/loaded)
    model_file,               \* weather_model.pkl at its final path
    scaler_file,              \* scaler.pkl at its final path
    last_metrics,             \* weather_ai.last_metrics (the evaluation report)
    ai_training_in_progress,  \* the single-flight flag
    req,                      \* request threads of POST /api/train-model (richer server)
    resp,                     \* the answer each request slot gave last
    run,                      \* training runs: the thread executing train_model
    run_seq,                  \* number of runs started so far
    received,                 \* readings accepted so far
    rx,                       \* the request thread of receive_sensor_data (simpler server)
    crashes,                  \* per process crash: the files the restarted process found
    call,                     \* the last call of a function on its own: name, arguments, result
    cleanup,                  \* the thread of background_tasks
    posts,                    \* request threads of receive_sensor_data at the append
    device_file,              \* device_configs/<device_id>.json of one device
    acks,                     \* request threads of POST /api/devices/<device_id>/ack
    commands                  \* what the device endpoints answered so far

vars == <<local_data, trained, model, scaler, model_file, scaler_file, last_metrics,
          ai_training_in_progress, req, resp, run, run_seq, received, rx, crashes, call,
          cleanup, posts, device_file, acks, commands>>

\* The state of the buffer cleanup and of the device endpoints.
cleanup_vars == <<cleanup, posts>>
device_vars == <<device_file, acks, commands>>
\* The state of the AI model, of its training and of the calls made on their own.
ai_vars == <<trained, model, scaler, model_file, scaler_file, last_metrics,
             ai_training_in_progress, req, resp, run, run_seq, rx, crashes, call>>

Reqs == 1..NumReq
Runs == 1..MaxRuns

\* ------------------------------------------------------------- readings
Reading(t, h, aq) == [temperature |-> t, humidity |-> h, air_quality |-> aq]

\* tests/test_ai_training.py: make_sample(point_count=60, temp=26, hum=85, aq=30)
TestSample == Reading(26, 85, 30)

\* seed_and_train.py: the three alternating demo readings
SeedSample(cls) ==
    IF cls = 0 THEN Reading(36, 35, 80)
    ELSE IF cls = 1 THEN Reading(24, 50, 40)
    ELSE Reading(10, 40, 30)

Rep(n, r) == [i \in 1..n |-> r]
Alternating(n) == [i \in 1..n |-> SeedSample((i - 1) % 3)]

\* Readings a sensor may post in the model.
SensorReadings == {TestSample, SeedSample(0), SeedSample(2)}

\* Buffers the server can hold when a behaviour starts (accumulated through
\* receive_sensor_data or restored from a backup).
InitialBuffers ==
    { <<>>, Rep(49, TestSample), Rep(60, TestSample), Alternating(60), Rep(100, TestSample) }

\* The reading posted to the simpler server, and the reading its endpoint
\* generates, in the model (no step of that server looks into a reading).
LiveReadings == {TestSample}

\* Buffers of the simpler server: below LIVE_ENDPOINT_MIN_DATA, below and at
\* MODEL_TRAINING_INTERVAL.
LiveBuffers == { <<>>, Rep(49, TestSample), Rep(60, TestSample) }

\* ----------------------------------------------------------- label deriver
\* The label cascade without its air-quality test.
label_from_bands_only(temp, humidity, air_quality) ==
    LET tband == IF temp < 15 THEN "cold"
                 ELSE IF temp < 20 THEN "cool"
                 ELSE IF temp < 25 THEN "normal"
                 ELSE IF temp < 30 THEN "warm"
                 ELSE IF temp < 35 THEN "hot"
                 ELSE "very_hot"
        hband == IF humidity < 30 THEN "dry"
                 ELSE IF humidity < 60 THEN "normal"
                 ELSE IF humidity < 80 THEN "humid"
                 ELSE "very_humid"
    IN  IF tband \in {"very_hot", "hot"} /\ hband \in {"humid", "very_humid"} THEN "Hot Humid"
        ELSE IF tband \in {"very_hot", "hot"} /\ hband \in {"dry"} THEN "Hot Dry"
        ELSE IF tband \in {"very_hot", "hot"} /\ hband \in {"normal"} THEN "Very Hot"
        ELSE IF tband \in {"warm"} /\ hband \in {"very_humid"} THEN "Very Humid"
        ELSE IF tband \in {"cold", "cool"} /\ hband \in {"very_humid", "humid"} THEN "Cool Humid"
        ELSE IF tband \in {"cold", "cool"} THEN "Cold"
        ELSE "Normal"

\* The label cascade with the cool band reaching up to 30.
label_from_wide_cool_band(temp, humidity, air_quality) ==
    IF air_quality # 0 /\ air_quality > 300 THEN "Polluted"
    ELSE
      LET tband == IF temp < 15 THEN "cold"
                   ELSE IF temp < 30 THEN "cool"
                   ELSE IF temp < 35 THEN "hot"
                   ELSE "very_hot"
          hband == IF humidity < 30 THEN "dry"
                   ELSE IF humidity < 60 THEN "normal"
                   ELSE IF humidity < 80 THEN "humid"
                   ELSE "very_humid"
      IN  IF tband \in {"very_hot", "hot"} /\ hband \in {"humid", "very_humid"} THEN "Hot Humid"
          ELSE IF tband \in {"very_hot", "hot"} /\ hband \in {"dry"} THEN "Hot Dry"
          ELSE IF tband \in {"very_hot", "hot"} /\ hband \in {"normal"} THEN "Very Hot"
          ELSE IF tband \in {"warm"} /\ hband \in {"very_humid"} THEN "Very Humid"
          ELSE IF tband \in {"cold", "cool"} /\ hband \in {"very_humid", "humid"} THEN "Cool Humid"
          ELSE IF tband \in {"cold", "cool"} THEN "Cold"
          ELSE "Normal"

\* The label cascade with every band limit taken as an inclusive upper limit.
label_from_inclusive_limits(temp, humidity, air_quality) ==
    IF air_quality # 0 /\ air_quality > 300 THEN "Polluted"
    ELSE
      LET tband == IF temp <= 15 THEN "cold"
                   ELSE IF temp <= 20 THEN "cool"
                   ELSE IF temp <= 25 THEN "normal"
                   ELSE IF temp <= 30 THEN "warm"
                   ELSE IF temp <= 35 THEN "hot"
                   ELSE "very_hot"
          hband == IF humidity <= 30 THEN "dry"
                   ELSE IF humidity <= 60 THEN "normal"
                   ELSE IF humidity <= 80 THEN "humid"
                   ELSE "very_humid"
      IN  IF tband \in {"very_hot", "hot"} /\ hband \in {"humid", "very_humid"} THEN "Hot Humid"
          ELSE IF tband \in {"very_hot", "hot"} /\ hband \in {"dry"} THEN "Hot Dry"
          ELSE IF tband \in {"very_hot", "hot"} /\ hband \in {"normal"} THEN "Very Hot"
          ELSE IF tband \in {"warm"} /\ hband \in {"very_humid"} THEN "Very Humid"
          ELSE IF tband \in {"cold", "cool"} /\ hband \in {"very_humid", "humid"} THEN "Cool Humid"
          ELSE IF tband \in {"cold", "cool"} THEN "Cold"
          ELSE "Normal"

\* _label_from_features (808-846).
label_from_features(temp, humidity, air_quality) ==
    IF air_quality # 0 /\ air_quality > 300 THEN "Polluted"
    ELSE
      LET tband == IF temp < 15 THEN "cold"
                   ELSE IF temp < 20 THEN "cool"
                   ELSE IF temp < 25 THEN "normal"
                   ELSE IF temp < 30 THEN "warm"
                   ELSE IF temp < 35 THEN "hot"
                   ELSE "very_hot"
          hband == IF humidity < 30 THEN "dry"
                   ELSE IF humidity < 60 THEN "normal"
                   ELSE IF humidity < 80 THEN "humid"
                   ELSE "very_humid"
      IN  IF tband \in {"very_hot", "hot"} /\ hband \in {"humid", "very_humid"} THEN "Hot Humid"
          ELSE IF tband \in {"very_hot", "hot"} /\ hband \in {"dry"} THEN "Hot Dry"
          ELSE IF tband \in {"very_hot", "hot"} /\ hband \in {"normal"} THEN "Very Hot"
          ELSE IF tband \in {"warm"} /\ hband \in {"very_humid"} THEN "Very Humid"
          ELSE IF tband \in {"cold", "cool"} /\ hband \in {"very_humid", "humid"} THEN "Cool Humid"
          ELSE IF tband \in {"cold", "cool"} THEN "Cold"
          ELSE "Normal"

\* The labels of a buffer, as the label deriver gives them.
LabelsOf(data) ==
    { label_from_features(data[i].temperature, data[i].humidity, data[i].air_quality) :
        i \in 1..Len(data) }

\* --------------------------------------------------------- python values
\* The value of a call: None, or a value that unpacks into (X, y, timestamps).
PyNone == [kind |-> "None"]

\* prepare_training_data: the method body is its docstring alone (the label
\* cascade that follows _oversample_minority's return is unreachable), so
\* every call returns None.
prepare_training_data(data) == PyNone

\* "X, y, timestamps = value": unpacking None raises TypeError.
UnpacksToTriple(value) == value.kind = "triple"

\* An empty dict.
EmptyDict == <<>>

\* Counter / np.unique(return_counts=True) over the labels of a buffer.
LabelCounts(data) ==
    [l \in LabelsOf(data) |->
        Cardinality({i \in 1..Len(data) :
            label_from_features(data[i].temperature, data[i].humidity,
                                data[i].air_quality) = l})]

\* get_label_distribution: {} for an empty buffer and whenever the unpacking
\* of prepare_training_data's result raises; else the label counts.
get_label_distribution(data_points) ==
    IF Len(data_points) = 0 THEN EmptyDict
    ELSE IF ~UnpacksToTriple(prepare_training_data(data_points)) THEN EmptyDict
    ELSE LabelCounts(data_points)

\* ai_ready_for_training: (ready, info); info is kept as its reason and its
\* auto_force entry.
ready_info(dist) ==
    IF Len(local_data) < MIN_AI_TRAIN_DATA
      THEN [ready |-> FALSE, reason |-> "data_below_min", auto_force |-> FALSE]
    ELSE
      IF Cardinality(DOMAIN dist) < 2
        THEN IF Len(local_data) >= ALLOW_AUTO_TRAIN_SINGLE_CLASS_THRESHOLD
               THEN [ready |-> TRUE, reason |-> "single_class_auto_allowed", auto_force |-> TRUE]
               ELSE [ready |-> FALSE, reason |-> "single_class", auto_force |-> FALSE]
      ELSE IF \E l \in DOMAIN dist : dist[l] < 2
        THEN [ready |-> FALSE, reason |-> "class_too_small", auto_force |-> FALSE]
      ELSE [ready |-> TRUE, reason |-> "ready", auto_force |-> FALSE]

ai_ready_for_training == ready_info(get_label_distribution(local_data))

\* ------------------------------------------------- objects and disk files
\* A fitted object (classifier or scaler) is named by the run that fitted it:
\* 0 is an unfitted object as __init__ builds it, 1..MaxRuns are the runs of
\* the behaviour, PriorVersion is the pair persisted by an earlier process.
Unfitted == 0
PriorVersion == MaxRuns + 1

Absent == [st |-> "absent", by |-> Unfitted]
Whole(v) == [st |-> "whole", by |-> v]
Torn(v) == [st |-> "torn", by |-> v]

\* ------------------------------------------------------ evaluation report
\* A report is kept as what its readers get from it (check_status.py 12-25,
\* /api/ai-status): last_metrics.get('evaluation_mode', 'UNKNOWN'),
\* .get('metrics_trusted', False), .get('synthetic_used'), and for each
\* metric whether the key is absent, holds None or holds a number.
\* last_metrics = {} after construction.
NoReport ==
    [status |-> "UNSET", evaluation_mode |-> "UNKNOWN",
     metrics_trusted |-> FALSE, synthetic_used |-> FALSE,
     train_accuracy |-> "absent", test_accuracy |-> "absent", macro_f1 |-> "absent",
     balanced_accuracy |-> "absent", baseline_majority_accuracy |-> "absent"]

\* The report of an aborted run (lines 974 and 993): status, message,
\* evaluation_mode and label_distribution, no other key.
AbortReport(status) ==
    [NoReport EXCEPT !.status = status, !.evaluation_mode = "NON_VALID"]

\* ------------------------------------------------------------- threads
IdleReq == [pc |-> "idle", force |-> FALSE, auto_force |-> FALSE]
NoRun == [pc |-> "none", force |-> FALSE, direct |-> FALSE, ok |-> FALSE,
          \* the force_single_class the caller itself gave
          force_requested |-> FALSE,
          data_len |-> 0, sample_data |-> <<>>,
          trained_before |-> FALSE, memory_before |-> <<Unfitted, Unfitted>>,
          files_before |-> <<Absent, Absent>>, report_before |-> NoReport,
          save_ok |-> TRUE,
          \* train_model's locals
          status |-> "UNSET", evaluation_mode |-> "UNSET", synthetic_used |-> FALSE,
          needs_synthetic |-> FALSE, y |-> <<>>, timestamps |-> <<>>,
          sorted_indices |-> <<>>, split_idx |-> 0, train_idx |-> <<>>, test_idx |-> <<>>,
          X_train |-> <<>>, y_train |-> <<>>, X_test |-> <<>>, y_test |-> <<>>]
\* No function has been called on its own.
NoCall == [fn |-> "none", args |-> <<>>, result |-> <<>>]
\* background_tasks sleeps between two rounds; kept is the slice it has
\* evaluated and not yet bound to the global.
IdleCleanup == [pc |-> "sleeping", kept |-> <<>>, rounds |-> 0]
\* A request thread of receive_sensor_data before it reaches the append.
IdlePost == [pc |-> "idle", stale |-> FALSE]
Posts == 1..NumPosts
\* No configuration file exists for the device.
NoRecord == [exists |-> FALSE, pending |-> FALSE, command_id |-> 0,
             desired_config |-> "none", last_ack |-> 0, applied_config |-> "none"]
\* A request thread of ack_device_command before its request arrives.
\* stored_command is the command id in the file that its write replaced.
IdleAck == [pc |-> "idle", command_id |-> 0, success |-> FALSE, record |-> NoRecord,
            status |-> 0, stored_command |-> 0]
Acks == 1..NumAcks
\* No poll has been answered.
NoAnswer == [command |-> "none", command_id |-> 0, outstanding |-> 0]
\* Nothing has been answered: no command id returned, no ack accepted.
NoCommands == [issued |-> 0, accepted |-> {}, polled |-> NoAnswer]
IdleRx == [pc |-> "idle", scaler_seen |-> Unfitted, model_seen |-> Unfitted,
           published |-> TRUE, answered |-> FALSE]

\* load_model: both files must exist; a file that does not load raises, the
\* exception is caught and trained stays False. The result is the triple
\* (model, scaler, trained).
load_model(mf, sf) ==
    IF mf.st = "absent" \/ sf.st = "absent" THEN <<Unfitted, Unfitted, FALSE>>
    ELSE IF mf.st = "torn" THEN <<Unfitted, Unfitted, FALSE>>
    ELSE IF sf.st = "torn" THEN <<mf.by, Unfitted, FALSE>>
    ELSE <<mf.by, sf.by, TRUE>>

\* WeatherAIModel.__init__ / load_model on the files found at start-up, and
\* the module-level globals.
Init ==
    /\ local_data \in InitialBuffers
    /\ \E persisted \in BOOLEAN :
         /\ model_file = (IF persisted THEN Whole(PriorVersion) ELSE Absent)
         /\ scaler_file = (IF persisted THEN Whole(PriorVersion) ELSE Absent)
    /\ model = load_model(model_file, scaler_file)[1]
    /\ scaler = load_model(model_file, scaler_file)[2]
    /\ trained = load_model(model_file, scaler_file)[3]
    /\ last_metrics = NoReport
    /\ ai_training_in_progress = FALSE
    /\ req = [r \in Reqs |-> IdleReq]
    /\ resp = [r \in Reqs |-> "none"]
    /\ run = [w \in Runs |-> NoRun]
    /\ run_seq = 0
    /\ received = 0
    /\ rx = IdleRx
    /\ crashes = <<>>
    /\ call = NoCall
    /\ cleanup = IdleCleanup
    /\ posts = [p \in Posts |-> IdlePost]
    /\ device_file = NoRecord
    /\ acks = [a \in Acks |-> IdleAck]
    /\ commands = NoCommands

\* The model starts at most MaxRuns runs: a trigger is taken only while a
\* run slot is left for it.
RunSlotLeft ==
    run_seq + Cardinality({r \in Reqs : req[r].pc # "idle"}) < MaxRuns

\* A run that is executing train_model.
Active(w) == run[w].pc \notin {"none", "returned", "finished", "killed"}
ActiveRuns == {w \in Runs : Active(w)}

\* A script or test drives the model object itself (seed_and_train.py,
\* tests/test_ai_training.py): no server thread runs in that process.
ScriptMode == \E w \in Runs : run[w].direct

\* A new run as its thread starts.
NewRun(force, direct) ==
    [NoRun EXCEPT !.pc = "train_model", !.force = force, !.direct = direct]

\* =================== the richer server (.history/backend/app_...py) ======

\* receive_sensor_data: the validated reading is appended to the buffer
\* (ENABLE_AUTO_PREDICTION is False: no prediction, and no training trigger).
receive_sensor_data(reading) ==
    /\ ~ScriptMode
    /\ received < MaxReceive
    /\ local_data' = Append(local_data, reading)
    /\ received' = received + 1
    /\ UNCHANGED <<call, cleanup_vars, device_vars>>
    /\ UNCHANGED <<trained, model, scaler, model_file, scaler_file, last_metrics,
                   ai_training_in_progress, req, resp, run, run_seq, rx, crashes>>

\* POST /api/train-model, up to the readiness check: answers not_ready (409)
\* when the buffer is not ready and force_single_class is not set.
train_ai_model_ready_on(r, force_single_class, ri) ==
    /\ ~ScriptMode
    /\ req[r].pc = "idle"
    /\   IF ~ri.ready /\ ~force_single_class
           THEN /\ resp' = [resp EXCEPT ![r] = "not_ready"]
                /\ req' = req
           ELSE /\ RunSlotLeft
                /\ resp' = [resp EXCEPT ![r] = "pending"]
                /\ req' = [req EXCEPT ![r] = [pc |-> "guard", force |-> force_single_class,
                                               auto_force |-> ri.auto_force]]
    /\ UNCHANGED <<call, cleanup_vars, device_vars>>
    /\ UNCHANGED <<local_data, trained, model, scaler, model_file, scaler_file, last_metrics,
                   ai_training_in_progress, run, run_seq, received, rx, crashes>>

train_ai_model_ready(r, force_single_class) ==
    train_ai_model_ready_on(r, force_single_class, ai_ready_for_training)

\* "with ai_training_lock:": test and set of the flag in one critical section.
train_ai_model_guard(r) ==
    /\ req[r].pc = "guard"
    /\ IF ai_training_in_progress
         THEN /\ resp' = [resp EXCEPT ![r] = "training_in_progress"]
              /\ req' = [req EXCEPT ![r] = IdleReq]
              /\ UNCHANGED ai_training_in_progress
         ELSE /\ ai_training_in_progress' = TRUE
              /\ req' = [req EXCEPT ![r].pc = "spawn"]
              /\ UNCHANGED resp
    /\ UNCHANGED <<call, cleanup_vars, device_vars>>
    /\ UNCHANGED <<local_data, trained, model, scaler, model_file, scaler_file, last_metrics,
                   run, run_seq, received, rx, crashes>>

\* threading.Thread(target=_run_train).start() and the answer. started = FALSE
\* is Thread.start raising (RuntimeError: can't start new thread): the
\* handler's "except Exception" answers 500 and nothing clears the flag.
train_ai_model_spawn(r, started) ==
    /\ req[r].pc = "spawn"
    /\ IF started
         THEN /\ run_seq < MaxRuns
              /\ run_seq' = run_seq + 1
              /\ run' = [run EXCEPT ![run_seq + 1] =
                            [NewRun(req[r].force \/ req[r].auto_force, FALSE)
                                EXCEPT !.force_requested = req[r].force]]
              /\ resp' = [resp EXCEPT ![r] = "training_started"]
         ELSE /\ resp' = [resp EXCEPT ![r] = "error"]
              /\ UNCHANGED <<run, run_seq>>
    /\ req' = [req EXCEPT ![r] = IdleReq]
    /\ UNCHANGED <<call, cleanup_vars, device_vars>>
    /\ UNCHANGED <<local_data, trained, model, scaler, model_file, scaler_file, last_metrics,
                   ai_training_in_progress, received, rx, crashes>>

\* seed_and_train.py and the tests call weather_ai.train_model(force) in
\* their own process, on the buffer they have filled.
direct_train_model(force_single_class) ==
    /\ run_seq = 0
    /\ received = 0
    /\ \A r \in Reqs : req[r].pc = "idle" /\ resp[r] = "none"
    /\ run_seq' = run_seq + 1
    /\ run' = [run EXCEPT ![run_seq + 1] =
                  [NewRun(force_single_class, TRUE)
                      EXCEPT !.force_requested = force_single_class]]
    /\ UNCHANGED <<call, cleanup_vars, device_vars>>
    /\ UNCHANGED <<local_data, trained, model, scaler, model_file, scaler_file, last_metrics,
                   ai_training_in_progress, req, resp, received, rx, crashes>>

\* Whether the local name y is bound when the DATA_TOO_SMALL report is built
\* (line 974, dict(Counter(y))): y is first assigned by the unpacking at line
\* 978, so reading it raises UnboundLocalError.
y_bound_at_data_too_small == FALSE

\* train_model returns: the thread keeps the result.
Returned(w, ok) == [run EXCEPT ![w].pc = "returned", ![w].ok = ok]

\* What a run remembers of the state it started from.
Entered(w) ==
    [run EXCEPT ![w].data_len = Len(local_data),
                ![w].trained_before = trained,
                ![w].memory_before = <<model, scaler>>,
                ![w].files_before = <<model_file, scaler_file>>,
                ![w].report_before = last_metrics,
                ![w].status = "OK",
                ![w].evaluation_mode = "VALID",
                ![w].synthetic_used = FALSE]

\* train_model, lines 963-977: the size check and the copy of the buffer.
train_model_enter(w) ==
    /\ run[w].pc = "train_model"
    /\ IF Len(local_data) < MIN_REAL_SAMPLES
         THEN IF y_bound_at_data_too_small
                THEN /\ last_metrics' = AbortReport("DATA_TOO_SMALL")
                     /\ run' = [Entered(w) EXCEPT ![w].pc = "returned", ![w].ok = FALSE,
                                                  ![w].status = "DATA_TOO_SMALL",
                                                  ![w].evaluation_mode = "NON_VALID"]
                ELSE \* except Exception (1163-1165): return False
                     /\ run' = [Entered(w) EXCEPT ![w].pc = "returned", ![w].ok = FALSE,
                                                  ![w].status = "DATA_TOO_SMALL",
                                                  ![w].evaluation_mode = "NON_VALID"]
                     /\ UNCHANGED last_metrics
         ELSE /\ run' = [Entered(w) EXCEPT ![w].pc = "prepare", ![w].sample_data = local_data]
              /\ UNCHANGED last_metrics
    /\ UNCHANGED <<call, cleanup_vars, device_vars>>
    /\ UNCHANGED <<local_data, trained, model, scaler, model_file, scaler_file,
                   ai_training_in_progress, req, resp, run_seq, received, rx, crashes>>

\* train_model, line 978: X, y, timestamps = prepare_training_data(...). A
\* value that does not unpack raises TypeError, caught at 1163-1165. (With a
\* value that unpacks the run goes on to line 979.)
train_model_prepare(w) ==
    /\ run[w].pc = "prepare"
    /\ LET value == prepare_training_data(run[w].sample_data) IN
         IF UnpacksToTriple(value)
           THEN run' = [run EXCEPT ![w].pc = "pipeline"]
           ELSE run' = Returned(w, FALSE)
    /\ UNCHANGED <<call, cleanup_vars, device_vars>>
    /\ UNCHANGED <<local_data, trained, model, scaler, model_file, scaler_file, last_metrics,
                   ai_training_in_progress, req, resp, run_seq, received, rx, crashes>>

\* _run_train after train_model returned: the success branch only reports
\* (its exceptions are caught); "finally" clears the flag.
run_train_finally(w) ==
    /\ run[w].pc = "returned"
    /\ ~run[w].direct
    /\ ai_training_in_progress' = FALSE
    /\ run' = [run EXCEPT ![w].pc = "finished"]
    /\ UNCHANGED <<call, cleanup_vars, device_vars>>
    /\ UNCHANGED <<local_data, trained, model, scaler, model_file, scaler_file, last_metrics,
                   req, resp, run_seq, received, rx, crashes>>

Next ==
    \/ \E reading \in SensorReadings : receive_sensor_data(reading)
    \/ \E r \in Reqs, force \in BOOLEAN : train_ai_model_ready(r, force)
    \/ \E r \in Reqs : train_ai_model_guard(r)
    \/ \E r \in Reqs, started \in BOOLEAN : train_ai_model_spawn(r, started)
    \/ \E force \in BOOLEAN : direct_train_model(force)
    \/ \E w \in Runs : train_model_enter(w)
    \/ \E w \in Runs : train_model_prepare(w)
    \/ \E w \in Runs : run_train_finally(w)

Spec == Init /\ [][Next]_vars

\* The operating system schedules every started thread: a request handler
\* past the readiness check and a training thread each take their next step.
FairSpec ==
    /\ Spec
    /\ WF_vars(\E r \in Reqs : train_ai_model_guard(r))
    /\ WF_vars(\E r \in Reqs, started \in BOOLEAN : train_ai_model_spawn(r, started))
    /\ WF_vars(\E w \in Runs : train_model_enter(w))
    /\ WF_vars(\E w \in Runs : train_model_prepare(w))
    /\ WF_vars(\E w \in Runs : run_train_finally(w))

\* ============ train_model past line 978 (.history/backend/app_...py) ======
\* The statements that make up prepare_training_data's computation stand
\* after the return of _oversample_minority (888-957). What follows is
\* train_model from line 979 on, applied to the triple those statements build.

\* Lines 909-949: the label cascade of the training label-generation step.
condition_of(temp, humidity, air_quality) ==
    IF air_quality # 0 /\ air_quality > 300 THEN "Polluted"
    ELSE
      LET tband == IF temp < 15 THEN "cold"
                   ELSE IF temp < 20 THEN "cool"
                   ELSE IF temp < 25 THEN "normal"
                   ELSE IF temp < 30 THEN "warm"
                   ELSE IF temp < 35 THEN "hot"
                   ELSE "very_hot"
          hband == IF humidity < 30 THEN "dry"
                   ELSE IF humidity < 60 THEN "normal"
                   ELSE IF humidity < 80 THEN "humid"
                   ELSE "very_humid"
      IN  IF tband \in {"very_hot", "hot"} /\ hband \in {"humid", "very_humid"} THEN "Hot Humid"
          ELSE IF tband \in {"very_hot", "hot"} /\ hband \in {"dry"} THEN "Hot Dry"
          ELSE IF tband \in {"very_hot", "hot"} /\ hband \in {"normal"} THEN "Very Hot"
          ELSE IF tband \in {"warm"} /\ hband \in {"very_humid"} THEN "Very Humid"
          ELSE IF tband \in {"cold", "cool"} /\ hband \in {"very_humid", "humid"} THEN "Cool Humid"
          ELSE IF tband \in {"cold", "cool"} THEN "Cold"
          ELSE "Normal"

\* Lines 888-957: one feature row, one label and one timestamp per reading.
prepare_body(data, stamps) ==
    [kind |-> "triple",
     X |-> data,
     y |-> [i \in 1..Len(data) |->
               condition_of(data[i].temperature, data[i].humidity, data[i].air_quality)],
     timestamps |-> stamps]

\* The timestamps the readings of a buffer carry: in insertion order, in
\* reverse order, or all equal.
\* A raw timestamp is an epoch, or a value that is missing or does not parse.
Epoch(v) == [kind |-> "epoch", value |-> v]
NoTimestamp == [kind |-> "none", value |-> 0]
StampOrders == {"ascending", "descending", "equal", "unparseable"}
Stamps(n, order) ==
    [i \in 1..n |-> IF order = "ascending" THEN Epoch(i)
                    ELSE IF order = "descending" THEN Epoch(n + 1 - i)
                    ELSE IF order = "equal" THEN Epoch(0)
                    ELSE IF i % 2 = 1 THEN NoTimestamp
                    ELSE Epoch(n + 1 - i)]

\* _parse_ts (1014-1036): the instant of a raw timestamp; a timestamp that
\* is None or cannot be parsed gives the epoch of the insertion index.
parse_ts(ts_raw, idx) == IF ts_raw.kind = "epoch" THEN ts_raw.value ELSE idx

\* np.unique(y) and the count of one label.
Unique(y) == {y[i] : i \in 1..Len(y)}
CountOf(y, label) == Cardinality({i \in 1..Len(y) : y[i] = label})

\* np.unique returns its labels sorted.
LabelOrder ==
    <<"Cold", "Cool Humid", "Hot Dry", "Hot Humid", "Normal", "Polluted", "Very Hot",
      "Very Humid">>

\* Lines 1038-1044: the indices 0..n-1 sorted by timestamp; sorted() is
\* stable, so equal timestamps keep the insertion order. An index stands
\* behind the indices with a smaller timestamp and behind the earlier
\* indices with the same timestamp.
rank_in(timestamps, i) ==
    Cardinality({j \in 0..(Len(timestamps) - 1) :
                    \/ timestamps[j + 1] < timestamps[i + 1]
                    \/ timestamps[j + 1] = timestamps[i + 1] /\ j < i})
index_at(ranks, p) == CHOOSE i \in DOMAIN ranks : ranks[i] = p - 1
placed_by(ranks) == [p \in 1..Cardinality(DOMAIN ranks) |-> index_at(ranks, p)]
sorted_indices(timestamps) ==
    placed_by([i \in 0..(Len(timestamps) - 1) |-> rank_in(timestamps, i)])

\* Python's max and min of two integers.
Max(a, b) == IF a >= b THEN a ELSE b
Min(a, b) == IF a <= b THEN a ELSE b

\* The split index with 0.8 * n rounded to the nearest integer.
split_idx_rounded(n) == Max(1, Min(n - 1, (n * 8 + 5) \div 10))

\* Line 1045: max(1, min(n - 1, int(n * 0.8))).
split_idx(n) == Max(1, Min(n - 1, (n * 8) \div 10))

\* Line 1046: sorted_indices[:split_idx].
train_idx(sorted, split) == SubSeq(sorted, 1, split)

\* The test slice taken one position early: sorted_indices[split_idx - 1:].
test_idx_from_last_train(sorted, split) == SubSeq(sorted, split, Len(sorted))

\* Line 1047: sorted_indices[split_idx:].
test_idx(sorted, split) == SubSeq(sorted, split + 1, Len(sorted))

\* Lines 1049-1050: X[idx], y[idx] for a list of 0-based indices.
Take(rows, idx) == [k \in 1..Len(idx) |-> rows[idx[k] + 1]]

\* The jitter of one augmentation step (rng.normal), as one offset.
Jitters == {-1, 0, 1}
Jittered(r, d) == Reading(r.temperature + d, r.humidity + d, r.air_quality + d)

\* Lines 1001-1006: the archetypes of the forced single-class run.
Archetypes ==
    <<Reading(10, 50, 50), Reading(38, 35, 80), Reading(26, 85, 90), Reading(24, 60, 80)>>
SYNTHETIC_N_EACH == 3
MIN_TRAIN_SAMPLES_PER_CLASS == 10

\* _generate_synthetic_features: n_each jittered copies of every archetype,
\* labelled by _label_from_features.
generate_synthetic_features(archetypes, d, n_each) ==
    LET X == [k \in 1..(Len(archetypes) * n_each) |->
                 Jittered(archetypes[((k - 1) \div n_each) + 1], d)]
    IN  [X |-> X,
         y |-> [k \in 1..Len(X) |->
                   label_from_features(X[k].temperature, X[k].humidity, X[k].air_quality)]]

\* The oversampling with every added row copied from the class's first row.
RECURSIVE oversample_from_first_row(_, _, _, _, _)
oversample_from_first_row(k, X_train, y_train, d, min_per_class) ==
    IF k > Len(LabelOrder) THEN [X |-> <<>>, y |-> <<>>]
    ELSE
      LET label == LabelOrder[k]
          count == CountOf(y_train, label)
          rest == oversample_from_first_row(k + 1, X_train, y_train, d, min_per_class)
      IN  IF count = 0 \/ count >= min_per_class THEN rest
          ELSE
            LET needed == min_per_class - count
                first == CHOOSE i \in 1..Len(y_train) :
                            y_train[i] = label /\ \A j \in 1..(i - 1) : y_train[j] # label
            IN  [X |-> [i \in 1..needed |-> Jittered(X_train[first], d)] \o rest.X,
                 y |-> [i \in 1..needed |-> label] \o rest.y]

\* _oversample_minority: for every label of y_train with fewer than
\* min_per_class rows, jittered copies of its rows are appended until it has
\* min_per_class.
RECURSIVE oversample_from(_, _, _, _, _)
oversample_from(k, X_train, y_train, d, min_per_class) ==
    IF k > Len(LabelOrder) THEN [X |-> <<>>, y |-> <<>>]
    ELSE
      LET label == LabelOrder[k]
          count == CountOf(y_train, label)
          rest == oversample_from(k + 1, X_train, y_train, d, min_per_class)
      IN  IF count = 0 \/ count >= min_per_class THEN rest
          ELSE
            LET needed == min_per_class - count
                idxs == {i \in 1..Len(y_train) : y_train[i] = label}
                nth(m) == CHOOSE i \in idxs : Cardinality({j \in idxs : j < i}) = m
            IN  [X |-> [i \in 1..needed |-> Jittered(X_train[nth((i - 1) % count)], d)] \o rest.X,
                 y |-> [i \in 1..needed |-> label] \o rest.y]

oversample_minority(X_train, y_train, d, min_per_class) ==
    LET extra == oversample_from(1, X_train, y_train, d, min_per_class)
    IN  [X |-> X_train \o extra.X, y |-> y_train \o extra.y]

\* Buffers of the training runs: the two buffers of the test and of the seed
\* script, and buffers of MIN_REAL_SAMPLES..MIN_REAL_SAMPLES+MaxExtra readings
\* made of a head of Very Hot readings, a body of Normal readings and a tail
\* of Very Hot readings.
TrainBuffers ==
    {Rep(60, TestSample), Alternating(60)} \cup
    { Rep(h, SeedSample(0)) \o Rep(n - h - k, SeedSample(1)) \o Rep(k, SeedSample(0)) :
        h \in 0..MaxHead, k \in 0..MaxTail,
        n \in MIN_REAL_SAMPLES..(MIN_REAL_SAMPLES + MaxExtra) }

\* train_model, line 978, with the triple of lines 888-957.
train_model_unpack(w, order) ==
    /\ run[w].pc = "prepare"
    /\ LET value == prepare_body(run[w].sample_data, Stamps(Len(run[w].sample_data), order)) IN
         run' = [run EXCEPT ![w].pc = "variety", ![w].y = value.y,
                            ![w].timestamps = value.timestamps]
    /\ UNCHANGED <<call, cleanup_vars, device_vars>>
    /\ UNCHANGED <<local_data, trained, model, scaler, model_file, scaler_file, last_metrics,
                   ai_training_in_progress, req, resp, run_seq, received, rx, crashes>>

\* train_model, lines 979-1006: fewer than 2 distinct labels aborts the run
\* with DATA_INSUFFICIENT_VARIETY unless it is forced; forced, the run is
\* marked NON_VALID and synthetic samples are scheduled.
train_model_variety(w) ==
    /\ run[w].pc = "variety"
    /\ LET unique_labels == Unique(run[w].y) IN
         IF Cardinality(unique_labels) < 2 /\ ~run[w].force
           THEN /\ last_metrics' = AbortReport("DATA_INSUFFICIENT_VARIETY")
                /\ run' = [run EXCEPT ![w].pc = "returned", ![w].ok = FALSE,
                                      ![w].status = "DATA_INSUFFICIENT_VARIETY",
                                      ![w].evaluation_mode = "NON_VALID"]
           ELSE /\ UNCHANGED last_metrics
                /\ IF Cardinality(unique_labels) < 2 /\ run[w].force
                     THEN run' = [run EXCEPT ![w].pc = "class_counts",
                                             ![w].evaluation_mode = "NON_VALID",
                                             ![w].synthetic_used = TRUE,
                                             ![w].needs_synthetic = TRUE]
                     ELSE run' = [run EXCEPT ![w].pc = "class_counts"]
    /\ UNCHANGED <<call, cleanup_vars, device_vars>>
    /\ UNCHANGED <<local_data, trained, model, scaler, model_file, scaler_file,
                   ai_training_in_progress, req, resp, run_seq, received, rx, crashes>>

\* train_model, lines 1009-1012: a class with fewer than 2 rows in the whole
\* dataset marks the evaluation NON_VALID.
train_model_class_counts(w) ==
    /\ run[w].pc = "class_counts"
    /\ IF \E label \in Unique(run[w].y) : CountOf(run[w].y, label) < 2
         THEN run' = [run EXCEPT ![w].pc = "sort", ![w].evaluation_mode = "NON_VALID"]
         ELSE run' = [run EXCEPT ![w].pc = "sort"]
    /\ UNCHANGED <<call, cleanup_vars, device_vars>>
    /\ UNCHANGED <<local_data, trained, model, scaler, model_file, scaler_file, last_metrics,
                   ai_training_in_progress, req, resp, run_seq, received, rx, crashes>>

\* train_model, lines 1014-1044: the indices in the order of their parsed
\* timestamps.
train_model_sort(w) ==
    /\ run[w].pc = "sort"
    /\ run' = [run EXCEPT ![w].pc = "split",
                          ![w].sorted_indices =
                              sorted_indices([i \in 1..Len(run[w].timestamps) |->
                                                 parse_ts(run[w].timestamps[i], i - 1)])]
    /\ UNCHANGED <<call, cleanup_vars, device_vars>>
    /\ UNCHANGED <<local_data, trained, model, scaler, model_file, scaler_file, last_metrics,
                   ai_training_in_progress, req, resp, run_seq, received, rx, crashes>>

\* train_model, lines 1045-1050: the split index and the two partitions.
train_model_split(w) ==
    /\ run[w].pc = "split"
    /\ LET split == split_idx(Len(run[w].sorted_indices)) IN
         run' = [run EXCEPT ![w].pc = "augment",
                            ![w].split_idx = split,
                            ![w].train_idx = train_idx(run[w].sorted_indices, split),
                            ![w].test_idx = test_idx(run[w].sorted_indices, split),
                            ![w].X_train = Take(run[w].sample_data,
                                                train_idx(run[w].sorted_indices, split)),
                            ![w].y_train = Take(run[w].y, train_idx(run[w].sorted_indices, split)),
                            ![w].X_test = Take(run[w].sample_data,
                                               test_idx(run[w].sorted_indices, split)),
                            ![w].y_test = Take(run[w].y, test_idx(run[w].sorted_indices, split))]
    /\ UNCHANGED <<call, cleanup_vars, device_vars>>
    /\ UNCHANGED <<local_data, trained, model, scaler, model_file, scaler_file, last_metrics,
                   ai_training_in_progress, req, resp, run_seq, received, rx, crashes>>

\* The synthetic samples stacked onto both partitions.
with_synthetic_everywhere(r, d) ==
    IF r.needs_synthetic
      THEN LET syn == generate_synthetic_features(Archetypes, d, SYNTHETIC_N_EACH)
           IN  [r EXCEPT !.X_train = r.X_train \o syn.X, !.y_train = r.y_train \o syn.y,
                         !.X_test = r.X_test \o syn.X, !.y_test = r.y_test \o syn.y]
      ELSE r

\* Lines 1053-1056: the synthetic samples go to X_train / y_train.
with_synthetic(r, d) ==
    IF r.needs_synthetic
      THEN LET syn == generate_synthetic_features(Archetypes, d, SYNTHETIC_N_EACH)
           IN  [r EXCEPT !.X_train = r.X_train \o syn.X, !.y_train = r.y_train \o syn.y]
      ELSE r

\* Lines 1060-1061: the oversampling replaces X_train / y_train.
with_oversampling(r, d) ==
    LET over == oversample_minority(r.X_train, r.y_train, d, MIN_TRAIN_SAMPLES_PER_CLASS)
    IN  [r EXCEPT !.X_train = over.X, !.y_train = over.y]

\* train_model, lines 1053-1061: synthetic generation and oversampling.
train_model_augment(w, d) ==
    /\ run[w].pc = "augment"
    /\ run' = [run EXCEPT ![w] = [with_oversampling(with_synthetic(run[w], d), d)
                                     EXCEPT !.pc = "fit"]]
    /\ UNCHANGED <<call, cleanup_vars, device_vars>>
    /\ UNCHANGED <<local_data, trained, model, scaler, model_file, scaler_file, last_metrics,
                   ai_training_in_progress, req, resp, run_seq, received, rx, crashes>>

\* train_model, lines 1069-1081: self.scaler.fit_transform, self.model.fit
\* and the scores. An exception (outcome "scaler_raises", "model_raises") is
\* caught at 1163-1165.
FitOutcomes == {"ok", "scaler_raises", "model_raises"}
train_model_fit(w, outcome) ==
    /\ run[w].pc = "fit"
    /\ scaler' = IF outcome = "scaler_raises" THEN scaler ELSE w
    /\ model' = IF outcome = "ok" THEN w ELSE model
    /\ run' = IF outcome = "ok" THEN [run EXCEPT ![w].pc = "report"] ELSE Returned(w, FALSE)
    /\ UNCHANGED <<call, cleanup_vars, device_vars>>
    /\ UNCHANGED <<local_data, trained, model_file, scaler_file, last_metrics,
                   ai_training_in_progress, req, resp, run_seq, received, rx, crashes>>

\* The check of line 1092 without its per-label count.
test_not_valid_distinct_only(y_test) == Cardinality(Unique(y_test)) < 2

\* Line 1092: the test partition has fewer than 2 distinct labels, or a test
\* label with fewer than 2 rows.
test_not_valid(y_test) ==
    \/ Cardinality(Unique(y_test)) < 2
    \/ \E lbl \in Unique(y_test) : CountOf(y_test, lbl) < 2

\* Lines 1105-1142: the report of a run that was fitted and evaluated.
FinalReport(status, evaluation_mode, synthetic_used) ==
    LET metrics_trusted == (evaluation_mode = "VALID")
        display(m) == IF metrics_trusted THEN m ELSE "None"
    IN  [status |-> status, evaluation_mode |-> evaluation_mode,
         metrics_trusted |-> metrics_trusted, synthetic_used |-> synthetic_used,
         train_accuracy |-> "number",
         test_accuracy |-> display("number"),
         macro_f1 |-> display("number"),
         balanced_accuracy |-> display("number"),
         baseline_majority_accuracy |-> "number"]

\* train_model, lines 1083-1154: the validity check of the test partition,
\* then self.trained = True and the report.
train_model_report(w) ==
    /\ run[w].pc = "report"
    /\ LET evaluation_mode == IF test_not_valid(run[w].y_test) THEN "NON_VALID"
                              ELSE run[w].evaluation_mode
       IN  /\ run' = [run EXCEPT ![w].pc = "save", ![w].evaluation_mode = evaluation_mode]
           /\ last_metrics' = FinalReport(run[w].status, evaluation_mode, run[w].synthetic_used)
    /\ trained' = TRUE
    /\ UNCHANGED <<call, cleanup_vars, device_vars>>
    /\ UNCHANGED <<local_data, model, scaler, model_file, scaler_file,
                   ai_training_in_progress, req, resp, run_seq, received, rx, crashes>>

\* train_model, lines 1156-1161, and save_model (777-799): the model file,
\* then the scaler file, each through _atomic_write, then the metadata file.
\* A failure at one of the three writes makes save_model return False.
SaveOutcomes == {"ok", "model_fails", "scaler_fails", "meta_fails"}
train_model_save(w, outcome) ==
    /\ run[w].pc = "save"
    /\ model_file' = IF outcome = "model_fails" THEN model_file ELSE Whole(model)
    /\ scaler_file' = IF outcome \in {"model_fails", "scaler_fails"} THEN scaler_file
                      ELSE Whole(scaler)
    /\ run' = [run EXCEPT ![w].pc = "returned", ![w].ok = (outcome = "ok"),
                          ![w].save_ok = (outcome = "ok")]
    /\ UNCHANGED <<call, cleanup_vars, device_vars>>
    /\ UNCHANGED <<local_data, trained, model, scaler, last_metrics,
                   ai_training_in_progress, req, resp, run_seq, received, rx, crashes>>

NextTrain ==
    \/ \E force \in BOOLEAN : direct_train_model(force)
    \/ \E w \in Runs : train_model_enter(w)
    \/ \E w \in Runs, order \in StampOrders : train_model_unpack(w, order)
    \/ \E w \in Runs : train_model_variety(w)
    \/ \E w \in Runs : train_model_class_counts(w)
    \/ \E w \in Runs : train_model_sort(w)
    \/ \E w \in Runs : train_model_split(w)
    \/ \E w \in Runs, d \in Jitters : train_model_augment(w, d)
    \/ \E w \in Runs, outcome \in FitOutcomes : train_model_fit(w, outcome)
    \/ \E w \in Runs : train_model_report(w)
    \/ \E w \in Runs, outcome \in SaveOutcomes : train_model_save(w, outcome)

InitTrain ==
    /\ local_data \in TrainBuffers
    /\ \E persisted \in BOOLEAN :
         /\ model_file = (IF persisted THEN Whole(PriorVersion) ELSE Absent)
         /\ scaler_file = (IF persisted THEN Whole(PriorVersion) ELSE Absent)
    /\ model = load_model(model_file, scaler_file)[1]
    /\ scaler = load_model(model_file, scaler_file)[2]
    /\ trained = load_model(model_file, scaler_file)[3]
    /\ last_metrics = NoReport
    /\ ai_training_in_progress = FALSE
    /\ req = [r \in Reqs |-> IdleReq]
    /\ resp = [r \in Reqs |-> "none"]
    /\ run = [w \in Runs |-> NoRun]
    /\ run_seq = 0
    /\ received = 0
    /\ rx = IdleRx
    /\ crashes = <<>>
    /\ call = NoCall
    /\ cleanup = IdleCleanup
    /\ posts = [p \in Posts |-> IdlePost]
    /\ device_file = NoRecord
    /\ acks = [a \in Acks |-> IdleAck]
    /\ commands = NoCommands

SpecTrain == InitTrain /\ [][NextTrain]_vars

\* ---- the trigger of the richer server in front of train_model past 978
\* get_label_distribution (1478-1487) when the unpacking succeeds: the counts
\* of the labels y of the triple.
label_distribution_of(value) ==
    IF ~UnpacksToTriple(value) THEN EmptyDict
    ELSE [l \in Unique(value.y) |-> CountOf(value.y, l)]

\* POST /api/train-model up to the readiness check, with the label
\* distribution of the triple of lines 888-957.
train_ai_model_ready_triple(r, force_single_class) ==
    train_ai_model_ready_on(r, force_single_class,
        ready_info(IF Len(local_data) = 0 THEN EmptyDict
                   ELSE label_distribution_of(
                            prepare_body(local_data, Stamps(Len(local_data), "ascending")))))

\* Buffers of the triggered runs: below and at the single-class threshold,
\* and the seed script's three classes.
TriggerBuffers == {Rep(60, TestSample), Rep(100, TestSample), Alternating(60)}

NextTrigger ==
    \/ \E r \in Reqs, force \in BOOLEAN : train_ai_model_ready_triple(r, force)
    \/ \E r \in Reqs : train_ai_model_guard(r)
    \/ \E r \in Reqs, started \in BOOLEAN : train_ai_model_spawn(r, started)
    \/ \E w \in Runs : train_model_enter(w)
    \/ \E w \in Runs : train_model_unpack(w, "ascending")
    \/ \E w \in Runs : train_model_variety(w)
    \/ \E w \in Runs : train_model_class_counts(w)
    \/ \E w \in Runs : train_model_sort(w)
    \/ \E w \in Runs : train_model_split(w)
    \/ \E w \in Runs, d \in Jitters : train_model_augment(w, d)
    \/ \E w \in Runs, outcome \in FitOutcomes : train_model_fit(w, outcome)
    \/ \E w \in Runs : train_model_report(w)
    \/ \E w \in Runs, outcome \in SaveOutcomes : train_model_save(w, outcome)
    \/ \E w \in Runs : run_train_finally(w)

InitTrigger ==
    /\ local_data \in TriggerBuffers
    /\ \E persisted \in BOOLEAN :
         /\ model_file = (IF persisted THEN Whole(PriorVersion) ELSE Absent)
         /\ scaler_file = (IF persisted THEN Whole(PriorVersion) ELSE Absent)
    /\ model = load_model(model_file, scaler_file)[1]
    /\ scaler = load_model(model_file, scaler_file)[2]
    /\ trained = load_model(model_file, scaler_file)[3]
    /\ last_metrics = NoReport
    /\ ai_training_in_progress = FALSE
    /\ req = [r \in Reqs |-> IdleReq]
    /\ resp = [r \in Reqs |-> "none"]
    /\ run = [w \in Runs |-> NoRun]
    /\ run_seq = 0
    /\ received = 0
    /\ rx = IdleRx
    /\ crashes = <<>>
    /\ call = NoCall
    /\ cleanup = IdleCleanup
    /\ posts = [p \in Posts |-> IdlePost]
    /\ device_file = NoRecord
    /\ acks = [a \in Acks |-> IdleAck]
    /\ commands = NoCommands

SpecTrigger == InitTrigger /\ [][NextTrigger]_vars

\* ========================= the simpler server (backend/app.py) ===========

\* A version a reader may rely on: the pair persisted before this process
\* started, or a run whose save_model has written both files.
Published(v) ==
    \/ v = PriorVersion
    \/ v \in Runs /\ run[v].pc = "finished" /\ run[v].ok /\ run[v].save_ok

\* receive_sensor_data, lines 604-624: the reading is appended.
live_receive_sensor_data(reading) ==
    /\ rx.pc = "idle"
    /\ received < MaxReceive
    /\ local_data' = Append(local_data, reading)
    /\ received' = received + 1
    /\ rx' = [IdleRx EXCEPT !.pc = "predict"]
    /\ UNCHANGED <<call, cleanup_vars, device_vars>>
    /\ UNCHANGED <<trained, model, scaler, model_file, scaler_file, last_metrics,
                   ai_training_in_progress, req, resp, run, run_seq, crashes>>

\* predict_weather, lines 348-353: the sentinel "Model not trained".
live_predict_weather_enter ==
    /\ rx.pc = "predict"
    /\ rx' = [rx EXCEPT !.pc = IF trained THEN "predict_scale" ELSE "trigger"]
    /\ UNCHANGED <<call, cleanup_vars, device_vars>>
    /\ UNCHANGED <<local_data, trained, model, scaler, model_file, scaler_file, last_metrics,
                   ai_training_in_progress, req, resp, run, run_seq, received, crashes>>

\* predict_weather, line 366: self.scaler.transform(features). An unfitted
\* scaler raises; the handler at 381-387 answers "Prediction Error".
live_predict_weather_scale ==
    /\ rx.pc = "predict_scale"
    /\ rx' = [rx EXCEPT !.pc = IF scaler = Unfitted THEN "trigger" ELSE "predict_model",
                        !.scaler_seen = scaler,
                        !.published = Published(scaler)]
    /\ UNCHANGED <<call, cleanup_vars, device_vars>>
    /\ UNCHANGED <<local_data, trained, model, scaler, model_file, scaler_file, last_metrics,
                   ai_training_in_progress, req, resp, run, run_seq, received, crashes>>

\* predict_weather, lines 369-380: self.model.predict / predict_proba and the
\* answer.
live_predict_weather_model ==
    /\ rx.pc = "predict_model"
    /\ rx' = [rx EXCEPT !.pc = "trigger",
                        !.model_seen = model,
                        !.published = rx.published /\ Published(model),
                        !.answered = (model # Unfitted)]
    /\ UNCHANGED <<call, cleanup_vars, device_vars>>
    /\ UNCHANGED <<local_data, trained, model, scaler, model_file, scaler_file, last_metrics,
                   ai_training_in_progress, req, resp, run, run_seq, received, crashes>>

\* A run of the simpler server's train_model as its thread starts.
LiveRun == [NewRun(FALSE, FALSE) EXCEPT !.pc = "live_train_model"]

\* receive_sensor_data, lines 666-667: "Train model if needed".
live_receive_trigger ==
    /\ rx.pc = "trigger"
    /\ IF Len(local_data) >= MODEL_TRAINING_INTERVAL /\ ~trained
         THEN /\ run_seq < MaxRuns
              /\ run_seq' = run_seq + 1
              /\ run' = [run EXCEPT ![run_seq + 1] = LiveRun]
         ELSE UNCHANGED <<run, run_seq>>
    /\ rx' = IdleRx
    /\ UNCHANGED <<call, cleanup_vars, device_vars>>
    /\ UNCHANGED <<local_data, trained, model, scaler, model_file, scaler_file, last_metrics,
                   ai_training_in_progress, req, resp, received, crashes>>

\* POST /api/train-model, lines 883-899: pads a buffer of fewer than 10
\* readings with 100 generated ones, then runs train_model (in the request
\* thread when the buffer holds MODEL_TRAINING_INTERVAL readings, else in a
\* new thread). The generated readings are drawn as one reading repeated.
live_train_ai_model(sample) ==
    /\ run_seq < MaxRuns
    /\ local_data' = IF Len(local_data) < LIVE_ENDPOINT_MIN_DATA
                       THEN local_data \o Rep(LIVE_ENDPOINT_PAD, sample)
                       ELSE local_data
    /\ run_seq' = run_seq + 1
    /\ run' = [run EXCEPT ![run_seq + 1] = LiveRun]
    /\ UNCHANGED <<call, cleanup_vars, device_vars>>
    /\ UNCHANGED <<trained, model, scaler, model_file, scaler_file, last_metrics,
                   ai_training_in_progress, req, resp, received, rx, crashes>>

\* train_model, lines 294-314: the sample (LIVE_SAMPLE_COUNT generated
\* readings when the buffer holds fewer than LIVE_MIN_OWN_DATA, else a copy of
\* the buffer) and prepare_training_data. ok = FALSE: an exception (a reading
\* whose field does not compare with a number), caught at 342-344.
live_train_model_prepare(w, ok) ==
    /\ run[w].pc = "live_train_model"
    /\ LET n == IF Len(local_data) < LIVE_MIN_OWN_DATA THEN LIVE_SAMPLE_COUNT
                ELSE Len(local_data)
           e == [run EXCEPT ![w].data_len = n,
                            ![w].trained_before = trained,
                            ![w].files_before = <<model_file, scaler_file>>]
       IN  IF ok /\ n >= LIVE_MIN_ROWS
             THEN run' = [e EXCEPT ![w].pc = "live_fit_scaler"]
             ELSE run' = [e EXCEPT ![w].pc = "finished", ![w].ok = FALSE]
    /\ UNCHANGED <<call, cleanup_vars, device_vars>>
    /\ UNCHANGED <<local_data, trained, model, scaler, model_file, scaler_file, last_metrics,
                   ai_training_in_progress, req, resp, run_seq, received, rx, crashes>>

\* sklearn's train_test_split(X, y, test_size=0.2, random_state=42) shuffles the
\* row indices with numpy's RandomState(42).permutation(n) (Mersenne Twister
\* seeded with 42, Fisher-Yates from the last position down): the permutation
\* for the numbers of rows the runs of the model split (the buffers of
\* LiveBuffers, padded by LIVE_ENDPOINT_PAD or replaced by LIVE_SAMPLE_COUNT
\* generated rows, plus the readings received since).
ShuffledSizes == (49..55) \cup (60..66) \cup (100..106) \cup {200}
Permutation42(n) ==
    IF n = 49 THEN
      <<13, 45, 47, 44, 17, 27, 26, 25, 31, 19, 12, 4, 34, 8, 3, 6, 40, 41, 46, 15, 9, 16, 24,
        33, 30, 0, 43, 32, 5, 29, 11, 36, 1, 21, 2, 37, 35, 23, 39, 10, 22, 18, 48, 20, 7, 42,
        14, 28, 38>>
    ELSE IF n = 50 THEN
      <<13, 39, 30, 45, 17, 48, 26, 25, 32, 19, 12, 4, 37, 8, 3, 6, 41, 46, 47, 15, 9, 16, 24,
        34, 31, 0, 44, 27, 33, 5, 29, 11, 36, 1, 21, 2, 43, 35, 23, 40, 10, 22, 18, 49, 20, 7,
        42, 14, 28, 38>>
    ELSE IF n = 51 THEN
      <<43, 40, 46, 12, 24, 31, 17, 32, 3, 30, 13, 8, 49, 6, 47, 4, 36, 33, 19, 48, 15, 9, 16,
        26, 44, 25, 11, 0, 45, 27, 34, 5, 29, 37, 1, 21, 2, 39, 35, 23, 41, 10, 22, 18, 50, 20,
        7, 42, 14, 28, 38>>
    ELSE IF n = 52 THEN
      <<19, 41, 47, 12, 43, 5, 17, 50, 3, 32, 13, 8, 26, 6, 34, 4, 37, 24, 44, 33, 49, 15, 9,
        16, 30, 36, 25, 11, 0, 46, 27, 31, 39, 29, 45, 1, 21, 2, 40, 35, 23, 48, 10, 22, 18,
        51, 20, 7, 42, 14, 28, 38>>
    ELSE IF n = 53 THEN
      <<19, 41, 47, 12, 43, 5, 17, 50, 3, 32, 13, 8, 26, 6, 34, 4, 37, 24, 44, 33, 49, 15, 9,
        16, 30, 36, 25, 11, 0, 46, 27, 31, 39, 29, 45, 1, 21, 2, 40, 35, 23, 48, 10, 22, 18,
        52, 20, 7, 42, 14, 28, 51, 38>>
    ELSE IF n = 54 THEN
      <<19, 49, 48, 12, 44, 5, 17, 52, 3, 32, 13, 8, 26, 6, 34, 4, 37, 24, 45, 33, 50, 15, 9,
        16, 30, 36, 25, 11, 0, 47, 27, 31, 40, 29, 46, 1, 21, 2, 41, 39, 35, 23, 43, 10, 22,
        18, 53, 20, 7, 42, 14, 28, 51, 38>>
    ELSE IF n = 55 THEN
      <<31, 5, 32, 13, 19, 49, 41, 26, 43, 12, 52, 3, 33, 34, 8, 17, 6, 4, 47, 27, 46, 45, 53,
        15, 9, 16, 24, 30, 37, 25, 11, 0, 48, 36, 29, 40, 1, 21, 2, 50, 39, 35, 23, 44, 10, 22,
        18, 54, 20, 7, 42, 14, 28, 51, 38>>
    ELSE IF n = 60 THEN
      <<0, 5, 36, 45, 13, 54, 33, 48, 12, 57, 46, 50, 31, 3, 52, 17, 8, 6, 40, 4, 43, 19, 34,
        58, 25, 56, 15, 27, 9, 30, 26, 16, 24, 55, 11, 32, 53, 41, 37, 29, 44, 1, 21, 2, 47,
        39, 35, 23, 49, 10, 22, 18, 59, 20, 7, 42, 14, 28, 51, 38>>
    ELSE IF n = 61 THEN
      <<0, 5, 46, 31, 13, 55, 34, 49, 12, 40, 33, 59, 16, 3, 53, 17, 8, 6, 41, 4, 44, 19, 47,
        52, 25, 57, 15, 58, 27, 9, 30, 36, 26, 24, 43, 11, 32, 54, 56, 37, 29, 45, 1, 21, 2,
        48, 39, 35, 23, 50, 10, 22, 18, 60, 20, 7, 42, 14, 28, 51, 38>>
    ELSE IF n = 62 THEN
      <<50, 56, 0, 57, 5, 48, 16, 12, 25, 59, 30, 9, 47, 13, 33, 34, 3, 17, 54, 8, 6, 31, 4,
        45, 19, 52, 36, 53, 41, 58, 15, 40, 27, 26, 24, 44, 11, 32, 55, 43, 37, 29, 46, 1, 21,
        2, 49, 39, 35, 23, 60, 10, 22, 18, 61, 20, 7, 42, 14, 28, 51, 38>>
    ELSE IF n = 63 THEN
      <<61, 57, 0, 43, 5, 36, 16, 12, 25, 60, 55, 9, 40, 13, 34, 49, 3, 17, 48, 8, 6, 33, 4,
        46, 19, 53, 41, 54, 31, 30, 58, 59, 15, 27, 26, 24, 45, 11, 32, 56, 44, 37, 29, 47, 1,
        21, 2, 50, 39, 35, 23, 52, 10, 22, 18, 62, 20, 7, 42, 14, 28, 51, 38>>
    ELSE IF n = 64 THEN
      <<52, 58, 0, 44, 5, 36, 16, 12, 25, 61, 56, 9, 40, 13, 34, 50, 3, 17, 49, 8, 6, 33, 4,
        47, 19, 54, 41, 55, 31, 30, 59, 60, 15, 27, 26, 24, 46, 11, 32, 57, 45, 37, 29, 43, 48,
        1, 21, 2, 62, 39, 35, 23, 53, 10, 22, 18, 63, 20, 7, 42, 14, 28, 51, 38>>
    ELSE IF n = 65 THEN
      <<53, 60, 0, 45, 5, 61, 16, 12, 64, 30, 33, 9, 41, 13, 34, 25, 3, 17, 40, 8, 6, 63, 4,
        48, 36, 19, 55, 58, 56, 50, 31, 44, 62, 15, 27, 26, 24, 47, 11, 32, 59, 46, 37, 29, 43,
        49, 1, 21, 2, 52, 39, 35, 23, 54, 10, 22, 18, 57, 38, 20, 7, 42, 14, 28, 51>>
    ELSE IF n = 66 THEN
      <<54, 62, 0, 45, 5, 63, 16, 12, 65, 30, 33, 9, 41, 13, 34, 25, 3, 17, 40, 8, 6, 28, 4,
        48, 36, 19, 56, 59, 58, 50, 31, 44, 64, 15, 27, 26, 24, 47, 11, 32, 61, 46, 37, 29, 43,
        49, 1, 21, 2, 53, 39, 35, 52, 23, 55, 10, 22, 18, 57, 38, 20, 60, 7, 42, 14, 51>>
    ELSE IF n = 100 THEN
      <<83, 53, 70, 45, 44, 39, 22, 80, 10, 0, 18, 30, 73, 33, 90, 4, 76, 77, 12, 31, 55, 88,
        26, 42, 69, 15, 40, 96, 9, 72, 11, 47, 85, 28, 93, 5, 66, 65, 35, 16, 49, 34, 7, 95,
        27, 19, 81, 25, 62, 13, 24, 3, 17, 38, 8, 78, 6, 64, 36, 89, 56, 99, 54, 43, 50, 67,
        46, 68, 61, 97, 79, 41, 58, 48, 98, 57, 75, 32, 94, 59, 63, 84, 37, 29, 1, 52, 21, 2,
        23, 87, 91, 74, 86, 82, 20, 60, 71, 14, 92, 51>>
    ELSE IF n = 101 THEN
      <<84, 55, 66, 67, 45, 39, 22, 44, 10, 0, 18, 30, 97, 33, 77, 4, 93, 78, 12, 31, 76, 89,
        26, 42, 70, 15, 40, 72, 9, 96, 11, 91, 64, 28, 83, 5, 47, 53, 35, 16, 81, 34, 7, 43,
        73, 27, 19, 94, 25, 62, 49, 13, 24, 3, 17, 38, 8, 79, 6, 65, 36, 88, 56, 100, 54, 50,
        68, 46, 69, 61, 98, 80, 41, 58, 48, 90, 57, 75, 32, 95, 59, 63, 85, 37, 29, 1, 52, 21,
        2, 23, 87, 99, 74, 86, 82, 20, 60, 71, 14, 92, 51>>
    ELSE IF n = 102 THEN
      <<30, 67, 62, 47, 42, 40, 90, 45, 10, 0, 18, 31, 97, 85, 76, 4, 79, 33, 12, 26, 100, 53,
        22, 68, 44, 98, 15, 73, 39, 9, 84, 11, 101, 55, 28, 64, 5, 78, 65, 35, 16, 91, 34, 7,
        43, 72, 27, 19, 83, 25, 77, 49, 13, 24, 3, 17, 38, 8, 80, 6, 66, 36, 89, 56, 95, 54,
        50, 69, 46, 70, 61, 99, 81, 41, 58, 48, 88, 57, 75, 32, 96, 59, 63, 94, 37, 29, 1, 52,
        21, 2, 23, 87, 93, 74, 86, 82, 20, 60, 71, 14, 92, 51>>
    ELSE IF n = 103 THEN
      <<30, 67, 62, 47, 42, 40, 90, 45, 10, 0, 18, 31, 97, 85, 76, 4, 79, 33, 12, 26, 100, 53,
        22, 68, 44, 98, 15, 73, 39, 9, 84, 11, 101, 55, 28, 64, 5, 78, 65, 35, 16, 91, 34, 7,
        43, 72, 27, 19, 83, 25, 77, 49, 13, 24, 3, 17, 38, 8, 80, 6, 66, 36, 89, 56, 95, 54,
        50, 69, 46, 70, 61, 99, 81, 41, 58, 48, 88, 57, 75, 32, 96, 59, 63, 94, 37, 29, 1, 52,
        21, 2, 23, 87, 93, 74, 86, 82, 20, 60, 71, 14, 92, 51, 102>>
    ELSE IF n = 104 THEN
      <<30, 65, 64, 53, 45, 93, 91, 47, 10, 0, 18, 31, 88, 95, 77, 4, 80, 33, 12, 26, 98, 55,
        22, 76, 44, 72, 15, 42, 40, 9, 85, 11, 103, 78, 28, 79, 5, 62, 56, 39, 35, 16, 66, 34,
        7, 43, 68, 69, 27, 19, 84, 25, 73, 49, 13, 24, 3, 17, 38, 8, 81, 6, 67, 36, 90, 83, 54,
        50, 70, 46, 99, 61, 100, 96, 41, 58, 48, 89, 57, 75, 32, 97, 59, 63, 101, 37, 29, 1,
        52, 21, 2, 23, 87, 94, 74, 86, 82, 20, 60, 71, 14, 92, 51, 102>>
    ELSE IF n = 105 THEN
      <<30, 65, 64, 53, 45, 94, 104, 47, 10, 0, 18, 31, 89, 96, 77, 4, 80, 33, 12, 26, 99, 55,
        22, 76, 44, 72, 15, 42, 40, 9, 85, 11, 103, 78, 28, 79, 5, 62, 56, 39, 35, 16, 66, 34,
        7, 43, 68, 69, 27, 19, 84, 25, 73, 49, 13, 24, 3, 17, 38, 8, 81, 6, 67, 36, 91, 83, 54,
        50, 70, 46, 100, 61, 101, 97, 41, 58, 48, 90, 57, 75, 32, 98, 59, 63, 88, 37, 29, 93,
        1, 52, 21, 2, 23, 87, 95, 74, 86, 82, 20, 60, 71, 14, 92, 51, 102>>
    ELSE IF n = 106 THEN
      <<100, 10, 4, 81, 97, 65, 30, 33, 93, 11, 47, 42, 0, 78, 18, 64, 67, 79, 55, 44, 12, 80,
        62, 26, 22, 31, 45, 73, 15, 77, 36, 88, 9, 53, 95, 28, 40, 5, 104, 76, 39, 35, 16, 56,
        34, 7, 43, 66, 70, 27, 19, 85, 90, 25, 69, 49, 13, 24, 3, 17, 38, 8, 98, 6, 68, 103,
        84, 54, 50, 101, 46, 72, 61, 105, 83, 41, 58, 48, 91, 57, 75, 32, 99, 59, 63, 89, 37,
        29, 94, 1, 52, 21, 2, 23, 87, 96, 74, 86, 82, 20, 60, 71, 14, 92, 51, 102>>
    ELSE IF n = 200 THEN
      <<95, 15, 30, 158, 128, 115, 69, 170, 174, 45, 66, 182, 165, 78, 186, 177, 56, 152, 82,
        68, 124, 16, 148, 93, 65, 60, 84, 67, 125, 132, 9, 18, 55, 75, 150, 104, 135, 137, 164,
        76, 79, 197, 38, 24, 122, 195, 29, 19, 143, 86, 114, 173, 5, 126, 117, 73, 140, 98,
        172, 96, 169, 97, 31, 12, 35, 119, 42, 189, 90, 136, 51, 127, 162, 41, 118, 113, 26,
        139, 100, 111, 2, 77, 46, 187, 191, 85, 161, 36, 190, 61, 22, 141, 101, 33, 11, 194,
        159, 6, 27, 120, 4, 32, 142, 145, 109, 144, 10, 62, 112, 146, 166, 0, 198, 153, 70,
        123, 64, 44, 163, 28, 40, 108, 155, 156, 25, 23, 184, 147, 81, 39, 168, 47, 94, 154,
        43, 138, 3, 105, 53, 133, 180, 178, 185, 49, 80, 34, 7, 110, 91, 83, 176, 181, 89, 8,
        13, 59, 171, 131, 17, 72, 175, 134, 167, 183, 63, 54, 107, 50, 196, 58, 48, 88, 21, 57,
        160, 192, 129, 37, 157, 193, 1, 52, 149, 130, 151, 103, 99, 116, 87, 74, 121, 199, 20,
        188, 71, 106, 14, 92, 179, 102>>
    ELSE <<>>

\* train_test_split, line 317: the first ceil(0.2 * n) indices of the
\* permutation are the test part, the rest the training part.
TEST_SIZE_TENTHS == 2
n_test(n) == (n * TEST_SIZE_TENTHS + 9) \div 10
live_test_idx(n) == SubSeq(Permutation42(n), 1, n_test(n))
live_train_idx(n) == SubSeq(Permutation42(n), n_test(n) + 1, n)

\* train_model, lines 317-321: the split and self.scaler.fit_transform, which
\* refits the scaler object the readers use. ok = FALSE: an exception.
live_train_model_fit_scaler(w, ok) ==
    /\ run[w].pc = "live_fit_scaler"
    /\ LET n == run[w].data_len
           e == [run EXCEPT ![w].timestamps = Stamps(n, "ascending"),
                            ![w].train_idx = live_train_idx(n),
                            ![w].test_idx = live_test_idx(n)]
       IN  IF ok
             THEN /\ scaler' = w
                  /\ run' = [e EXCEPT ![w].pc = "live_fit_model"]
             ELSE /\ run' = [e EXCEPT ![w].pc = "finished", ![w].ok = FALSE]
                  /\ UNCHANGED scaler
    /\ UNCHANGED <<call, cleanup_vars, device_vars>>
    /\ UNCHANGED <<local_data, trained, model, model_file, scaler_file, last_metrics,
                   ai_training_in_progress, req, resp, run_seq, received, rx, crashes>>

\* train_model, lines 324-328: self.model.fit refits the classifier object
\* the readers use, then the two scores. ok = FALSE: an exception.
live_train_model_fit_model(w, ok) ==
    /\ run[w].pc = "live_fit_model"
    /\ IF ok
         THEN /\ model' = w
              /\ run' = [run EXCEPT ![w].pc = "live_publish"]
         ELSE /\ run' = [run EXCEPT ![w].pc = "finished", ![w].ok = FALSE]
              /\ UNCHANGED model
    /\ UNCHANGED <<call, cleanup_vars, device_vars>>
    /\ UNCHANGED <<local_data, trained, scaler, model_file, scaler_file, last_metrics,
                   ai_training_in_progress, req, resp, run_seq, received, rx, crashes>>

\* train_model, lines 330-334, and save_model, line 239: self.trained = True,
\* then joblib.dump(self.model, self.model_file) opens the final path for
\* writing: from here the file holds a partial pickle.
live_save_model_open(w) ==
    /\ run[w].pc = "live_publish"
    /\ trained' = TRUE
    /\ model_file' = Torn(model)
    /\ run' = [run EXCEPT ![w].pc = "live_dump_model"]
    /\ UNCHANGED <<call, cleanup_vars, device_vars>>
    /\ UNCHANGED <<local_data, model, scaler, scaler_file, last_metrics,
                   ai_training_in_progress, req, resp, run_seq, received, rx, crashes>>

\* save_model, line 239 completes, or raises (ok = FALSE: disk full): the
\* handler at 243-245 returns False, which train_model does not look at
\* (lines 334-340: it returns True).
live_save_model_dump(w, ok) ==
    /\ run[w].pc = "live_dump_model"
    /\ IF ok
         THEN /\ model_file' = Whole(model)
              /\ run' = [run EXCEPT ![w].pc = "live_save_scaler"]
         ELSE /\ run' = [run EXCEPT ![w].pc = "finished", ![w].ok = TRUE,
                                    ![w].save_ok = FALSE]
              /\ UNCHANGED model_file
    /\ UNCHANGED <<call, cleanup_vars, device_vars>>
    /\ UNCHANGED <<local_data, trained, model, scaler, scaler_file, last_metrics,
                   ai_training_in_progress, req, resp, run_seq, received, rx, crashes>>

\* save_model, line 240: joblib.dump(self.scaler, self.scaler_file) opens the
\* final path for writing.
live_save_scaler_open(w) ==
    /\ run[w].pc = "live_save_scaler"
    /\ scaler_file' = Torn(scaler)
    /\ run' = [run EXCEPT ![w].pc = "live_dump_scaler"]
    /\ UNCHANGED <<call, cleanup_vars, device_vars>>
    /\ UNCHANGED <<local_data, trained, model, scaler, model_file, last_metrics,
                   ai_training_in_progress, req, resp, run_seq, received, rx, crashes>>

\* save_model, line 240 completes, or raises (ok = FALSE); train_model returns
\* True either way (lines 334-340).
live_save_scaler_dump(w, ok) ==
    /\ run[w].pc = "live_dump_scaler"
    /\ IF ok
         THEN /\ scaler_file' = Whole(scaler)
              /\ run' = [run EXCEPT ![w].pc = "finished", ![w].ok = TRUE]
         ELSE /\ run' = [run EXCEPT ![w].pc = "finished", ![w].ok = TRUE,
                                    ![w].save_ok = FALSE]
              /\ UNCHANGED scaler_file
    /\ UNCHANGED <<call, cleanup_vars, device_vars>>
    /\ UNCHANGED <<local_data, trained, model, scaler, model_file, last_metrics,
                   ai_training_in_progress, req, resp, run_seq, received, rx, crashes>>

\* The process is killed and started again: every thread is gone, the files
\* stay as they are, __init__ runs load_model on them and restore_data
\* brings back the buffer of the latest backup (taken here as the buffer at
\* the time of the crash). The model follows the restarted process through
\* its readings and predictions only: no run slot is left after a crash.
live_crash_restart ==
    /\ Len(crashes) < MaxCrashes
    /\ crashes' = Append(crashes, <<model_file, scaler_file>>)
    /\ run' = [w \in Runs |-> IF Active(w) THEN [run[w] EXCEPT !.pc = "killed"] ELSE run[w]]
    /\ rx' = IdleRx
    /\ model' = load_model(model_file, scaler_file)[1]
    /\ scaler' = load_model(model_file, scaler_file)[2]
    /\ trained' = load_model(model_file, scaler_file)[3]
    /\ run_seq' = MaxRuns
    /\ UNCHANGED <<call, cleanup_vars, device_vars>>
    /\ UNCHANGED <<local_data, model_file, scaler_file, last_metrics,
                   ai_training_in_progress, req, resp, received>>

NextLive ==
    \/ \E reading \in LiveReadings : live_receive_sensor_data(reading)
    \/ live_predict_weather_enter
    \/ live_predict_weather_scale
    \/ live_predict_weather_model
    \/ live_receive_trigger
    \/ \E sample \in LiveReadings : live_train_ai_model(sample)
    \/ \E w \in Runs, ok \in BOOLEAN : live_train_model_prepare(w, ok)
    \/ \E w \in Runs, ok \in BOOLEAN : live_train_model_fit_scaler(w, ok)
    \/ \E w \in Runs, ok \in BOOLEAN : live_train_model_fit_model(w, ok)
    \/ \E w \in Runs : live_save_model_open(w)
    \/ \E w \in Runs, ok \in BOOLEAN : live_save_model_dump(w, ok)
    \/ \E w \in Runs : live_save_scaler_open(w)
    \/ \E w \in Runs, ok \in BOOLEAN : live_save_scaler_dump(w, ok)
    \/ live_crash_restart

\* The simpler server starts with a buffer around its two thresholds.
InitLive == Init /\ local_data \in LiveBuffers

SpecLive == InitLive /\ [][NextLive]_vars

\* ======================= functions called on their own ====================
\* A function of the richer server applied to arguments drawn from a grid of
\* values at and around its thresholds; the call leaves the server's state
\* alone.

\* Feature values at and around the band limits of the label cascade.
LabelTemps == {-5, 0, 14, 15, 19, 20, 24, 25, 26, 29, 30, 34, 35, 40}
LabelHumidities == {0, 29, 30, 59, 60, 79, 80, 85, 100}
LabelAirQualities == {0, 30, 300, 301, 500}

\* _label_from_features(temp, humidity, air_quality).
call_label_from_features(temp, humidity, air_quality) ==
    /\ call = NoCall
    /\ call' = [fn |-> "_label_from_features",
                args |-> <<temp, humidity, air_quality>>,
                result |-> label_from_features(temp, humidity, air_quality)]
    /\ UNCHANGED <<local_data, trained, model, scaler, model_file, scaler_file, last_metrics,
                   ai_training_in_progress, req, resp, run, run_seq, received, rx, crashes>>
    /\ UNCHANGED <<cleanup_vars, device_vars>>

\* What may fail inside predict_weather's try block: building the feature
\* array, scaler.transform, model.predict, predict_proba, get_recommendations.
PredictFailures == {"none", "features", "scaler", "model", "proba", "recommendations"}

\* predict_weather with the feature array built before the try block.
predict_weather_features_first(is_trained, the_scaler, failure, prediction, confidence) ==
    IF ~is_trained
      THEN [condition |-> "Model not trained", confidence |-> 0, raised |-> FALSE]
    ELSE IF failure = "features"
      THEN [condition |-> "none", confidence |-> 0, raised |-> TRUE]
    ELSE IF the_scaler = Unfitted \/ failure # "none"
      THEN [condition |-> "Prediction Error", confidence |-> 0, raised |-> FALSE]
    ELSE [condition |-> prediction, confidence |-> confidence, raised |-> FALSE]

\* predict_weather (1167-1224; backend/app.py 346-387): the sentinel "Model
\* not trained" when the flag is false; else everything runs inside one try
\* block whose handler returns the sentinel "Prediction Error". prediction
\* and confidence are what the classifier answers.
predict_weather(is_trained, the_scaler, failure, prediction, confidence) ==
    IF ~is_trained
      THEN [condition |-> "Model not trained", confidence |-> 0, raised |-> FALSE]
    ELSE IF the_scaler = Unfitted \/ failure # "none"
      THEN [condition |-> "Prediction Error", confidence |-> 0, raised |-> FALSE]
    ELSE [condition |-> prediction, confidence |-> confidence, raised |-> FALSE]

\* The classifier's answers: a label and a confidence in percent.
Predictions == {"Normal", "Polluted"}
Confidences == {50, 100}

\* weather_ai.predict_weather(sensor_data): reads trained, scaler and model,
\* assigns none of them.
call_predict_weather(sensor_data, failure, prediction, confidence) ==
    /\ call = NoCall
    /\ call' = [fn |-> "predict_weather",
                args |-> <<sensor_data, failure, <<trained, model, scaler>>>>,
                result |-> predict_weather(trained, scaler, failure, prediction, confidence)]
    /\ UNCHANGED <<local_data, trained, model, scaler, model_file, scaler_file, last_metrics,
                   ai_training_in_progress, req, resp, run, run_seq, received, rx, crashes>>
    /\ UNCHANGED <<cleanup_vars, device_vars>>

\* ------------------------------------------------- FuzzyForecastEngine
\* Numbers are kept exact: a value is a fraction [num, den] with den > 0 in
\* lowest terms, a value rounded to k decimals is an integer count of
\* 10^-k. Time is counted in ticks of a quarter of a minute.
Frac(num, den) == [num |-> num, den |-> den]
TICKS_PER_MINUTE == 4

RECURSIVE GCD(_, _)
GCD(a, b) == IF b = 0 THEN a ELSE GCD(b, a % b)
Abs(a) == IF a < 0 THEN -a ELSE a
Norm(v) == LET g == GCD(Abs(v.num), v.den) IN Frac(v.num \div g, v.den \div g)
FracAdd(a, b) ==
    LET g == GCD(a.den, b.den)
    IN  Norm(Frac(a.num * (b.den \div g) + b.num * (a.den \div g), (a.den \div g) * b.den))
FracMul(a, b) ==
    LET g1 == GCD(Abs(a.num), b.den)
        g2 == GCD(Abs(b.num), a.den)
    IN  Frac((a.num \div g1) * (b.num \div g2), (a.den \div g2) * (b.den \div g1))
FracLess(a, b) == a.num * b.den < b.num * a.den

\* round(v, 2) in hundredths and round(v, 1) in tenths.
round2(v) == LET t == FracMul(v, Frac(100, 1)) IN (2 * t.num + t.den) \div (2 * t.den)
round1(v) == LET t == FracMul(v, Frac(10, 1)) IN (2 * t.num + t.den) \div (2 * t.den)

\* max(lo, v) and min(hi, v) for an integer limit.
clamp_lo(lo, v) == IF v.num < lo * v.den THEN Frac(lo, 1) ELSE v
clamp_hi(hi, v) == IF v.num > hi * v.den THEN Frac(hi, 1) ELSE v

RECURSIVE SumSeq(_, _)
SumSeq(values, k) == IF k = 0 THEN 0 ELSE values[k] + SumSeq(values, k - 1)

\* classify_light (1280-1284): the bin of a light intensity; a value in no
\* bin (a negative one) is "Cerah".
classify_light(lux) ==
    IF lux.num < 0 THEN "Cerah"
    ELSE IF FracLess(lux, Frac(50, 1)) THEN "Gelap"
    ELSE IF FracLess(lux, Frac(1000, 1)) THEN "Mendung"
    ELSE IF FracLess(lux, Frac(10000, 1)) THEN "Berawan"
    ELSE IF FracLess(lux, Frac(50000, 1)) THEN "Cerah"
    ELSE "Terik"

\* min(1.0, max(0.0, v)).
Unit(v) == IF v.num < 0 THEN Frac(0, 1) ELSE IF v.num > v.den THEN Frac(1, 1) ELSE v

\* rain_probability (1286-1298), in percent: 0.55, 0.35 and 0.10 of the
\* humidity, light and temperature scores, times 0.6 in glaring light and
\* times 1.15 (at most 1) in the dark.
rain_probability(temp_c, humidity, lux) ==
    LET humidity_score == Unit(FracMul(FracAdd(humidity, Frac(-55, 1)), Frac(1, 45)))
        light_score == Unit(FracMul(FracAdd(Frac(10000, 1), Frac(-lux.num, lux.den)),
                                    Frac(1, 10000)))
        temp_score == Unit(FracMul(FracAdd(temp_c, Frac(-28, 1)), Frac(1, 12)))
        risk == FracAdd(FracAdd(FracMul(Frac(11, 20), humidity_score),
                                FracMul(Frac(7, 20), light_score)),
                        FracMul(Frac(1, 10), temp_score))
        light_label == classify_light(lux)
        adjusted == IF light_label = "Terik" THEN FracMul(risk, Frac(3, 5))
                    ELSE IF light_label = "Gelap" THEN Unit(FracMul(risk, Frac(23, 20)))
                    ELSE risk
    IN  FracMul(Unit(adjusted), Frac(100, 1))

\* _fit_linear returns None.
FitNone == [kind |-> "None", a |-> Frac(0, 1), b |-> Frac(0, 1)]

FIT_MIN_POINTS == 3
FIT_LAST_POINTS == 30

\* _fit_linear(series): None for fewer than 3 points or for a span below half
\* a minute, else the least-squares line (a, b) through the last 30 points,
\* with x in minutes relative to the latest point. The sums are taken over
\* ticks and over the values less the latest value, which gives the same
\* line.
fit_linear(series) ==
    IF Len(series) < FIT_MIN_POINTS THEN FitNone
    ELSE
      LET sorted == Take(series, sorted_indices([i \in 1..Len(series) |-> series[i].tick]))
          t0 == sorted[Len(sorted)].tick
          last == SubSeq(sorted, Max(1, Len(sorted) - FIT_LAST_POINTS + 1), Len(sorted))
          n == Len(last)
          xs == [i \in 1..n |-> last[i].tick - t0]
          y0 == last[n].value
          ys == [i \in 1..n |-> last[i].value - y0]
          span == xs[n] - xs[1]
          Sx == SumSeq(xs, n)
          Sy == SumSeq(ys, n)
          Sxx == SumSeq([i \in 1..n |-> xs[i] * xs[i]], n)
          Sxy == SumSeq([i \in 1..n |-> xs[i] * ys[i]], n)
          per_tick == Norm(Frac(n * Sxy - Sx * Sy, n * Sxx - Sx * Sx))
      IN  IF 2 * span < TICKS_PER_MINUTE THEN FitNone
          ELSE [kind |-> "fit",
                a |-> FracMul(per_tick, Frac(TICKS_PER_MINUTE, 1)),
                b |-> FracAdd(Frac(y0, 1),
                              FracMul(Frac(1, n),
                                      FracAdd(Frac(Sy, 1),
                                              FracMul(per_tick, Frac(-Sx, 1)))))]

\* predict_val (1389-1399): the value now without a fit, else b + a * horizon,
\* clamped to [lo, hi].
predict_val(now_val, fit, horizon_minutes, lo, hi) ==
    LET v == IF fit.kind = "None" THEN Frac(now_val, 1)
             ELSE FracAdd(fit.b, FracMul(fit.a, Frac(horizon_minutes, 1)))
    IN  clamp_hi(hi, clamp_lo(lo, v))

FORECAST_WINDOW_MINUTES == 30
TEMP_CLAMP_LO == -10
TEMP_CLAMP_HI == 60
HUM_CLAMP_LO == 0
HUM_CLAMP_HI == 100
LUX_CLAMP_LO == 0
LUX_CLAMP_HI == 200000
RAIN_TIME_THRESHOLD == 60

\* Lines 1365-1383: the (time, value) series of one field over the readings
\* of the last 30 minutes.
series_of(history, field) ==
    LET recent == SelectSeq(history,
                            LAMBDA item : item.tick >= -FORECAST_WINDOW_MINUTES * TICKS_PER_MINUTE
                                          /\ item.tick <= 0)
    IN  [i \in 1..Len(recent) |-> [tick |-> recent[i].tick, value |-> recent[i][field]]]

\* predicted_rain_time: None, or the timestamp (minutes from now) of an
\* hourly point.
NoTime == [set |-> FALSE, minute |-> 0]
TimeAt(minute) == [set |-> TRUE, minute |-> minute]

\* The first test of line 1417 that succeeds, made on the unrounded value.
first_rain_unrounded(points) ==
    IF \E h \in 1..3 : ~FracLess(points[h].rain_prob, Frac(RAIN_TIME_THRESHOLD, 1))
      THEN LET h == CHOOSE h \in 1..3 :
                       /\ ~FracLess(points[h].rain_prob, Frac(RAIN_TIME_THRESHOLD, 1))
                       /\ \A g \in 1..(h - 1) :
                             FracLess(points[g].rain_prob, Frac(RAIN_TIME_THRESHOLD, 1))
           IN  TimeAt(h * 60)
      ELSE NoTime

\* forecast_3h(latest, history): the "now" point, the three hourly points
\* (temperature, humidity and light_intensity in hundredths, rain_probability
\* in tenths of a percent, timestamp in minutes from now) and
\* predicted_rain_time; the fits are reported along.
forecast_3h(latest, history) ==
    LET fit_temp == fit_linear(series_of(history, "temperature"))
        fit_hum == fit_linear(series_of(history, "humidity"))
        fit_lux == fit_linear(series_of(history, "light_intensity"))
        points == [h \in 1..3 |->
                     LET t_val == predict_val(latest.temperature, fit_temp, h * 60,
                                              TEMP_CLAMP_LO, TEMP_CLAMP_HI)
                         h_val == predict_val(latest.humidity, fit_hum, h * 60,
                                              HUM_CLAMP_LO, HUM_CLAMP_HI)
                         l_val == predict_val(latest.light_intensity, fit_lux, h * 60,
                                              LUX_CLAMP_LO, LUX_CLAMP_HI)
                     IN  [t_val |-> t_val, h_val |-> h_val, l_val |-> l_val,
                          rain_prob |-> rain_probability(t_val, h_val, l_val)]]
    IN  [now |-> [timestamp |-> 0,
                  rain_probability |->
                      round1(rain_probability(Frac(latest.temperature, 1),
                                              Frac(latest.humidity, 1),
                                              Frac(latest.light_intensity, 1))),
                  temperature |-> round2(Frac(latest.temperature, 1)),
                  humidity |-> round2(Frac(latest.humidity, 1)),
                  light_intensity |-> round2(Frac(latest.light_intensity, 1))],
         hourly_forecast |->
            [h \in 1..3 |->
                [timestamp |-> h * 60,
                 rain_probability |-> round1(points[h].rain_prob),
                 temperature |-> round2(points[h].t_val),
                 humidity |-> round2(points[h].h_val),
                 light_intensity |-> round2(points[h].l_val)]],
         predicted_rain_time |-> first_rain_unrounded(points),
         fits |-> <<fit_temp.kind, fit_hum.kind, fit_lux.kind>>]

\* Latest readings the ingestion accepts (validate_and_normalize_sensor_payload
\* only warns about a temperature outside [-50, 80] or a humidity outside
\* [0, 100], and does not look at light_intensity).
ForecastTemps == {-20, 25, 70}
ForecastHumidities == {50, 80, 120}
ForecastLights == {500, 1590, 250000}
\* Ticks between two readings (none, a quarter of a minute, 5 minutes), and
\* the change of every field per reading.
HistorySteps == {0, 1, 20}
HistorySlopes == {0, 1}
\* Lengths of the history: up to MaxHistory readings, and more than
\* _fit_linear uses.
HistoryLengths == (0..MaxHistory) \cup {FIT_LAST_POINTS + 2}
\* What a reading older than the last FIT_LAST_POINTS is off the trend by.
OUTLIER == 1000

\* A history of n readings that ends with the latest reading: every field
\* changes by slope per reading, and the readings older than the last
\* FIT_LAST_POINTS are off that trend.
HistoryOf(latest, n, step, slope) ==
    [i \in 1..n |->
        LET off == slope * (i - n) + (IF i <= n - FIT_LAST_POINTS THEN slope * OUTLIER ELSE 0)
        IN  [tick |-> (i - n) * step,
             temperature |-> latest.temperature + off,
             humidity |-> latest.humidity + off,
             light_intensity |-> latest.light_intensity + off]]

\* forecast_engine.forecast_3h(latest, history).
call_forecast_3h(latest, n, step, slope) ==
    /\ call = NoCall
    /\ call' = [fn |-> "forecast_3h",
                args |-> <<latest, n, step, slope>>,
                result |-> forecast_3h(latest, HistoryOf(latest, n, step, slope))]
    /\ UNCHANGED <<local_data, trained, model, scaler, model_file, scaler_file, last_metrics,
                   ai_training_in_progress, req, resp, run, run_seq, received, rx, crashes>>
    /\ UNCHANGED <<cleanup_vars, device_vars>>

\* Training partitions handed to _oversample_minority: up to
\* MaxOversampleRows rows that differ in their temperature by more than the
\* jitter, with every labelling by three of the categories.
OversampleLabels == {"Cold", "Normal", "Very Hot"}
OversampleMinimums == {1, 5}
OversampleRows(n) == [i \in 1..n |-> Reading(10 * i, 50, 40)]

\* model._oversample_minority(X_train, y_train, rng, min_per_class).
call_oversample_minority(X_train, y_train, d, min_per_class) ==
    /\ call = NoCall
    /\ call' = [fn |-> "_oversample_minority",
                args |-> <<X_train, y_train, d, min_per_class>>,
                result |-> oversample_minority(X_train, y_train, d, min_per_class)]
    /\ UNCHANGED <<local_data, trained, model, scaler, model_file, scaler_file, last_metrics,
                   ai_training_in_progress, req, resp, run, run_seq, received, rx, crashes>>
    /\ UNCHANGED <<cleanup_vars, device_vars>>

\* The call returns to its caller.
call_return ==
    /\ call # NoCall
    /\ call' = NoCall
    /\ UNCHANGED <<local_data, trained, model, scaler, model_file, scaler_file, last_metrics,
                   ai_training_in_progress, req, resp, run, run_seq, received, rx, crashes>>
    /\ UNCHANGED <<cleanup_vars, device_vars>>

NextCalls ==
    \/ call_return
    \/ \E n \in 0..MaxOversampleRows, d \in Jitters, min_per_class \in OversampleMinimums :
          \E y_train \in [1..n -> OversampleLabels] :
             call_oversample_minority(OversampleRows(n), y_train, d, min_per_class)
    \/ \E temp \in ForecastTemps, humidity \in ForecastHumidities, lux \in ForecastLights,
          n \in HistoryLengths, step \in HistorySteps, slope \in HistorySlopes :
           call_forecast_3h([temperature |-> temp, humidity |-> humidity,
                             light_intensity |-> lux], n, step, slope)
    \/ \E sensor_data \in SensorReadings, failure \in PredictFailures,
          prediction \in Predictions, confidence \in Confidences :
           call_predict_weather(sensor_data, failure, prediction, confidence)
    \/ \E temp \in LabelTemps, humidity \in LabelHumidities, air_quality \in LabelAirQualities :
           call_label_from_features(temp, humidity, air_quality)

InitCalls == Init /\ local_data = <<>>

SpecCalls == InitCalls /\ [][NextCalls]_vars

\* ================== the reading buffer and its cleanup ===================
\* config 'MAX_LOCAL_READINGS'.
MAX_LOCAL_READINGS == 1000

\* A reading in the buffer, with its place in the order of arrival: the order
\* in which the appends of receive_sensor_data ran.
Arrived(reading, n) ==
    [temperature |-> reading.temperature, humidity |-> reading.humidity,
     air_quality |-> reading.air_quality, arrival |-> n]
ArrivedRun(n) == [i \in 1..n |-> Arrived(TestSample, i)]

\* data[-n:] for a positive n.
LastOf(data, n) ==
    IF Len(data) <= n THEN data ELSE SubSeq(data, Len(data) - n + 1, Len(data))

\* receive_sensor_data, "local_data.append(sensor_reading.copy())": the thread
\* reads the global local_data, that is the list bound to the name now, and
\* then evaluates the argument before it calls append on that list. No lock
\* is held.
receive_sensor_data_load(p) ==
    /\ posts[p].pc = "idle"
    /\ posts' = [posts EXCEPT ![p] = [pc |-> "loaded", stale |-> FALSE]]
    /\ UNCHANGED <<local_data, received, cleanup, ai_vars, device_vars>>

\* The append itself, on the list the thread has read: the reading is
\* accepted. A list that is no longer bound to local_data takes the reading
\* with it.
receive_sensor_data_append(p, reading) ==
    /\ posts[p].pc = "loaded"
    /\ received' = received + 1
    /\ local_data' = IF posts[p].stale THEN local_data
                     ELSE Append(local_data, Arrived(reading, received + 1))
    /\ posts' = [posts EXCEPT ![p].pc = "appended"]
    /\ UNCHANGED <<cleanup, ai_vars, device_vars>>

\* background_tasks, one round up to the right-hand side of the assignment:
\* backup_data() copies the buffer to a file and leaves it alone; when the
\* buffer is longer than MAX_LOCAL_READINGS the slice of its last
\* MAX_LOCAL_READINGS entries is built as a new list. Otherwise the round
\* ends with the health check and the sleep.
background_tasks_slice ==
    /\ cleanup.pc = "sleeping"
    /\ cleanup.rounds < MaxCleanups
    /\ cleanup' = IF Len(local_data) > MAX_LOCAL_READINGS
                  THEN [cleanup EXCEPT !.pc = "sliced",
                                       !.kept = LastOf(local_data, MAX_LOCAL_READINGS)]
                  ELSE [cleanup EXCEPT !.rounds = @ + 1]
    /\ UNCHANGED <<local_data, received, posts, ai_vars, device_vars>>

\* background_tasks, the assignment: the global local_data is bound to the
\* new list. A request thread that has read the old list still holds it.
background_tasks_rebind ==
    /\ cleanup.pc = "sliced"
    /\ local_data' = cleanup.kept
    /\ posts' = [p \in Posts |->
                   IF posts[p].pc = "loaded" THEN [posts[p] EXCEPT !.stale = TRUE]
                   ELSE posts[p]]
    /\ cleanup' = [pc |-> "sleeping", kept |-> <<>>, rounds |-> cleanup.rounds + 1]
    /\ UNCHANGED <<received, ai_vars, device_vars>>

NextCleanup ==
    \/ \E p \in Posts : receive_sensor_data_load(p)
    \/ \E p \in Posts, reading \in SensorReadings : receive_sensor_data_append(p, reading)
    \/ background_tasks_slice
    \/ background_tasks_rebind

\* Buffers around the limit, each holding everything accepted so far.
CleanupSizes == (MAX_LOCAL_READINGS - 1)..(MAX_LOCAL_READINGS + 1)

InitCleanup ==
    /\ \E n \in CleanupSizes : local_data = ArrivedRun(n) /\ received = n
    /\ \E persisted \in BOOLEAN :
         /\ model_file = (IF persisted THEN Whole(PriorVersion) ELSE Absent)
         /\ scaler_file = (IF persisted THEN Whole(PriorVersion) ELSE Absent)
    /\ model = load_model(model_file, scaler_file)[1]
    /\ scaler = load_model(model_file, scaler_file)[2]
    /\ trained = load_model(model_file, scaler_file)[3]
    /\ last_metrics = NoReport
    /\ ai_training_in_progress = FALSE
    /\ req = [r \in Reqs |-> IdleReq]
    /\ resp = [r \in Reqs |-> "none"]
    /\ run = [w \in Runs |-> NoRun]
    /\ run_seq = 0
    /\ rx = IdleRx
    /\ crashes = <<>>
    /\ call = NoCall
    /\ cleanup = IdleCleanup
    /\ posts = [p \in Posts |-> IdlePost]
    /\ device_file = NoRecord
    /\ acks = [a \in Acks |-> IdleAck]
    /\ commands = NoCommands

SpecCleanup == InitCleanup /\ [][NextCleanup]_vars

\* ===================== the device configuration =========================
\* Bodies of POST /api/devices/<device_id>/config: {} and a non-empty object.
ConfigPayloads == {"empty", "settings"}

\* _read_device_config_file: None when the file does not exist.
read_device_config_file(file) == IF file.exists THEN file ELSE NoRecord

\* _write_device_config_file: the payload is dumped to <device_id>.json.tmp
\* and the temporary file replaces <device_id>.json.
write_device_config_file(payload) == [payload EXCEPT !.exists = TRUE]

\* set_device_config with a valid device id and a JSON object: a new record
\* with a fresh command id (uuid4) is written and the id is returned.
set_device_config(payload) ==
    /\ commands.issued < MaxCommands
    /\ LET command_id == commands.issued + 1
           record == [exists |-> FALSE, pending |-> TRUE, command_id |-> command_id,
                      desired_config |-> payload, last_ack |-> 0,
                      applied_config |-> "none"]
       IN /\ device_file' = write_device_config_file(record)
          /\ commands' = [commands EXCEPT !.issued = command_id]
    /\ UNCHANGED <<local_data, received, acks, ai_vars, cleanup_vars>>

\* The answer of get_device_commands on the record it has read.
get_device_commands_answer(record) ==
    IF record.exists /\ record.pending /\ record.desired_config # "empty"
       /\ record.command_id # 0
    THEN [command |-> "apply_config", command_id |-> record.command_id]
    ELSE [command |-> "no_command", command_id |-> 0]

\* The command id set_device_config returned last, while no ack naming it
\* has been accepted (0: none).
Outstanding ==
    IF commands.issued \in commands.accepted THEN 0 ELSE commands.issued

\* get_device_commands: the poll of the device. The answer is kept with the
\* command that was outstanding when it was given.
get_device_commands ==
    /\ LET answer == get_device_commands_answer(read_device_config_file(device_file))
       IN commands' = [commands EXCEPT !.polled =
                          [command |-> answer.command, command_id |-> answer.command_id,
                           outstanding |-> Outstanding]]
    /\ commands'.polled # commands.polled
    /\ UNCHANGED <<local_data, received, device_file, acks, ai_vars, cleanup_vars>>

\* ack_device_command with a valid body, up to the comparison of the command
\* ids: the record is read; 404 without a record, 409 when the record names
\* another command.
ack_device_command_read(a, command_id, success) ==
    /\ acks[a].pc = "idle"
    /\ LET record == read_device_config_file(device_file)
       IN acks' = [acks EXCEPT ![a] =
             IF ~record.exists
             THEN [IdleAck EXCEPT !.pc = "answered", !.command_id = command_id,
                                  !.success = success, !.status = 404]
             ELSE IF record.command_id # command_id
             THEN [IdleAck EXCEPT !.pc = "answered", !.command_id = command_id,
                                  !.success = success, !.status = 409]
             ELSE [IdleAck EXCEPT !.pc = "read", !.command_id = command_id,
                                  !.success = success, !.record = record]]
    /\ UNCHANGED <<local_data, received, device_file, commands, ai_vars, cleanup_vars>>

\* ack_device_command, the rest: the record that was read is marked as not
\* pending and written back; the ack is answered with 200.
ack_device_command_write(a) ==
    /\ acks[a].pc = "read"
    /\ LET record == [acks[a].record EXCEPT
                         !.pending = FALSE,
                         !.last_ack = acks[a].command_id,
                         !.applied_config = IF acks[a].success
                                            THEN acks[a].record.desired_config ELSE @]
       IN device_file' = write_device_config_file(record)
    /\ acks' = [acks EXCEPT ![a].pc = "answered", ![a].status = 200,
                            ![a].stored_command = device_file.command_id]
    /\ commands' = [commands EXCEPT !.accepted = @ \cup {acks[a].command_id}]
    /\ UNCHANGED <<local_data, received, ai_vars, cleanup_vars>>

\* Command ids a device may acknowledge.
AckCommandIds == 1..MaxCommands

NextDevice ==
    \/ \E payload \in ConfigPayloads : set_device_config(payload)
    \/ get_device_commands
    \/ \E a \in Acks, command_id \in AckCommandIds, success \in BOOLEAN :
          ack_device_command_read(a, command_id, success)
    \/ \E a \in Acks : ack_device_command_write(a)

\* The device endpoints on their own: no reading has arrived.
InitDevice == Init /\ local_data = <<>>

SpecDevice == InitDevice /\ [][NextDevice]_vars

\* ================================ claims =================================

\* What a run of the richer server's train_model must have left alone when
\* it returned: the trained flag, the in-memory model and scaler, the files.
Untouched(w) ==
    /\ trained = run[w].trained_before
    /\ <<model, scaler>> = run[w].memory_before
    /\ <<model_file, scaler_file>> = run[w].files_before

\* A run that was given a buffer of at least 50 readings of one label.
SingleClassRun(w) ==
    /\ run[w].pc = "returned"
    /\ run[w].data_len >= MIN_REAL_SAMPLES
    /\ Cardinality(LabelsOf(run[w].sample_data)) = 1

\* The first run of a process of the simpler server, with no other run
\* started and no crash: what it finds changed, it changed itself.
OnlyRun(w) == run[w].pc = "finished" /\ run_seq = 1 /\ crashes = <<>>

\* C1: at most one training run executes at any time: a trigger that arrives
\* while a run is active never starts a second run. (Simpler server:
\* receive_sensor_data and POST /api/train-model both start train_model
\* with no guard.)
C1_SingleFlight == Cardinality(ActiveRuns) <= 1

\* C2: whenever the single-flight flag is set it is eventually cleared again,
\* also when the background thread could not be started.
C2_GuardReleased == ai_training_in_progress ~> ~ai_training_in_progress

\* C3: a training attempt that ends in failure (an exception in the pipeline
\* or a failed save_model) leaves the trained flag as it was before the
\* attempt.
C3_FailedRunKeepsTrained ==
    \A w \in Runs :
        (OnlyRun(w) /\ (~run[w].ok \/ ~run[w].save_ok)) => trained = run[w].trained_before

\* C4: a training attempt that ends in failure (an exception in the pipeline
\* or a failure while writing an artifact) leaves the model file and the
\* scaler file exactly as they were before the attempt.
C4_FailedRunKeepsFiles ==
    \A w \in Runs :
        (OnlyRun(w) /\ (~run[w].ok \/ ~run[w].save_ok))
            => <<model_file, scaler_file>> = run[w].files_before

\* C5: a prediction that runs beside train_model uses a scaler and a
\* classifier fitted by the same run, and that run had persisted both when
\* the prediction read them.
C5_ConsistentSnapshot ==
    (rx.pc = "trigger" /\ rx.answered) => (rx.scaler_seen = rx.model_seen /\ rx.published)

\* C6: after a crash at any point of the persistence step, the restarted
\* process finds every artifact at its final path complete (the previous or
\* the new version), never partially written.
C6_NoTornFileAfterCrash ==
    \A i \in 1..Len(crashes) : crashes[i][1].st # "torn" /\ crashes[i][2].st # "torn"

\* C7: with fewer than 50 readings in the buffer train_model returns failure,
\* the report status is DATA_TOO_SMALL, and the trained flag, the in-memory
\* model and scaler and the files are unchanged.
C7_DataTooSmall ==
    \A w \in Runs :
        (run[w].pc = "returned" /\ run[w].data_len < MIN_REAL_SAMPLES)
            => /\ ~run[w].ok
               /\ last_metrics.status = "DATA_TOO_SMALL"
               /\ Untouched(w)

\* C8: with at least 50 readings of one single label and force_single_class
\* false, train_model fails with report status DATA_INSUFFICIENT_VARIETY and
\* evaluation_mode NON_VALID, and fits and writes nothing.
C8_InsufficientVariety ==
    \A w \in Runs :
        (SingleClassRun(w) /\ ~run[w].force)
            => /\ ~run[w].ok
               /\ last_metrics.status = "DATA_INSUFFICIENT_VARIETY"
               /\ last_metrics.evaluation_mode = "NON_VALID"
               /\ Untouched(w)

\* C9: with at least 50 readings of one single label (the test's 60 readings
\* temp=26, hum=85, aq=30) and force_single_class true, train_model returns
\* true, trained is true, the report says synthetic_used, NON_VALID and not
\* trusted, and the model file exists.
C9_ForcedSingleClass ==
    \A w \in Runs :
        (SingleClassRun(w) /\ run[w].force)
            => /\ run[w].ok
               /\ trained
               /\ last_metrics.synthetic_used
               /\ last_metrics.evaluation_mode = "NON_VALID"
               /\ ~last_metrics.metrics_trusted
               /\ model_file.st = "whole"

\* C10: the 60 readings alternating Very Hot, Normal, Cold, trained with
\* force_single_class false, reach DONE with evaluation_mode VALID and
\* metrics_trusted true.
C10_ThreeClassValid ==
    \A w \in Runs :
        (run[w].pc = "returned" /\ run[w].sample_data = Alternating(60) /\ ~run[w].force)
            => /\ run[w].ok
               /\ last_metrics.evaluation_mode = "VALID"
               /\ last_metrics.metrics_trusted

\* C11: in the report the server exposes after a training attempt, when
\* metrics_trusted is false the evaluation_mode is NON_VALID, test_accuracy,
\* macro_f1 and balanced_accuracy are unset, and train_accuracy and the
\* baseline are present.
C11_UntrustedReport ==
    ((\E w \in Runs : run[w].pc \in {"returned", "finished"}) /\ ~last_metrics.metrics_trusted)
        => /\ last_metrics.evaluation_mode = "NON_VALID"
           /\ last_metrics.test_accuracy # "number"
           /\ last_metrics.macro_f1 # "number"
           /\ last_metrics.balanced_accuracy # "number"
           /\ last_metrics.train_accuracy = "number"
           /\ last_metrics.baseline_majority_accuracy = "number"

\* The input of a trigger is sufficient: at least 50 readings, and at least
\* 2 distinct labels unless the run is forced.
SufficientInput(forced) ==
    /\ Len(local_data) >= MIN_REAL_SAMPLES
    /\ (Cardinality(LabelsOf(local_data)) >= 2 \/ forced)

\* C13: a trigger on insufficient input (fewer than 50 readings whatever the
\* force flag, or fewer than 2 distinct labels without it) is rejected: the
\* guard is not taken and no run is started.
C13_InsufficientInputRejected ==
    /\ \A r \in Reqs : req[r].pc = "spawn" => SufficientInput(req[r].force \/ req[r].auto_force)
    /\ \A w \in Runs : (run[w].pc # "none" /\ ~run[w].direct) => SufficientInput(run[w].force)

\* ------------------------------------------ claims on train_model's pipeline
\* A run past the split, past the augmentation, and with its final report.
Split(w) == run[w].pc \in {"augment", "fit", "report", "save"}
Augmented(w) == run[w].pc \in {"fit", "report", "save"}
Reported(w) == run[w].pc = "save" \/ (run[w].pc = "returned" /\ (run[w].ok \/ ~run[w].save_ok))

\* The four events that make an evaluation untrustworthy: forced
\* single-class training, a class with fewer than 2 rows in the dataset, a
\* test partition with fewer than 2 labels, a test label with fewer than 2 rows.
Downgraded(w) ==
    \/ Cardinality(Unique(run[w].y)) < 2 /\ run[w].force
    \/ \E label \in Unique(run[w].y) : CountOf(run[w].y, label) < 2
    \/ Cardinality(Unique(run[w].y_test)) < 2
    \/ \E label \in Unique(run[w].y_test) : CountOf(run[w].y_test, label) < 2

Indices(idx) == {idx[k] : k \in 1..Len(idx)}

Categories ==
    {"Cold", "Cool Humid", "Hot Dry", "Hot Humid", "Normal", "Polluted", "Very Hot",
     "Very Humid"}

\* C16: _label_from_features returns one of the 8 categories for every
\* (temperature, humidity, air_quality), and Polluted whenever air_quality
\* exceeds 300, whatever the temperature and humidity.
C16_LabelTotal ==
    call.fn = "_label_from_features" =>
        /\ call.result \in Categories
        /\ call.args[3] > 300 => call.result = "Polluted"

\* A cold, very humid reading with polluted air was labelled.
C16_Witness ==
    /\ call.fn = "_label_from_features"
    /\ call.args[1] < 15 /\ call.args[2] >= 80 /\ call.args[3] > 300
    /\ call.result = "Polluted"

\* C17: for every reading of a buffer the label of the training
\* label-generation step, the label counted by get_label_distribution (as
\* the readiness check uses it) and the label of _label_from_features are
\* the same, so the readiness check sees the label distribution of the
\* training run.
C17_LabelAgreement ==
    (\E r \in Reqs : resp[r] # "none") =>
        /\ \A i \in 1..Len(local_data) :
              condition_of(local_data[i].temperature, local_data[i].humidity,
                           local_data[i].air_quality)
                = label_from_features(local_data[i].temperature, local_data[i].humidity,
                                      local_data[i].air_quality)
        /\ DOMAIN get_label_distribution(local_data) = LabelsOf(local_data)

\* C18: prepare_training_data returns a triple (X, y, timestamps) with one
\* feature row, one label and one timestamp per reading, for every non-empty
\* list of readings.
C18_PrepareReturnsTriple ==
    \A w \in Runs :
        (run[w].pc = "returned" /\ run[w].sample_data # <<>>) =>
            LET value == prepare_training_data(run[w].sample_data) IN
            /\ UnpacksToTriple(value)
            /\ Len(value.X) = Len(run[w].sample_data)
            /\ Len(value.y) = Len(run[w].sample_data)
            /\ Len(value.timestamps) = Len(run[w].sample_data)

\* C19: predict_weather never raises: with the trained flag false it returns
\* the sentinel "Model not trained" with confidence 0.0, with a failure during
\* scaling or prediction the sentinel "Prediction Error" with confidence 0.0,
\* and the trained flag, the model and the scaler are as before the call.
C19_PredictNeverRaises ==
    call.fn = "predict_weather" =>
        LET before == call.args[3] IN
        /\ ~call.result.raised
        /\ ~before[1] => (call.result.condition = "Model not trained"
                             /\ call.result.confidence = 0)
        /\ (before[1] /\ call.args[2] # "none") =>
               (call.result.condition = "Prediction Error" /\ call.result.confidence = 0)
        /\ <<trained, model, scaler>> = before

\* A call on a trained model whose feature array could not be built.
C19_Witness ==
    /\ call.fn = "predict_weather"
    /\ call.args[3][1]
    /\ call.args[2] = "features"
    /\ call.result.condition = "Prediction Error"

\* C20: forecast_3h on a flat history (every recent reading has the latest
\* reading's temperature, humidity and light) returns three hourly points
\* whose temperature, humidity and light_intensity equal those of the "now"
\* point, for every latest reading the ingestion accepts.
C20_FlatForecast ==
    (call.fn = "forecast_3h" /\ call.args[4] = 0) =>
        \A h \in 1..3 :
            /\ call.result.hourly_forecast[h].temperature = call.result.now.temperature
            /\ call.result.hourly_forecast[h].humidity = call.result.now.humidity
            /\ call.result.hourly_forecast[h].light_intensity = call.result.now.light_intensity

\* The same, for a latest reading inside the ranges the forecast clamps to.
FlatForecastInsideClamps ==
    (call.fn = "forecast_3h" /\ call.args[4] = 0
        /\ call.args[1].temperature = 25 /\ call.args[1].humidity = 50
        /\ call.args[1].light_intensity = 500) =>
        \A h \in 1..3 :
            /\ call.result.hourly_forecast[h].temperature = call.result.now.temperature
            /\ call.result.hourly_forecast[h].humidity = call.result.now.humidity
            /\ call.result.hourly_forecast[h].light_intensity = call.result.now.light_intensity

Partitioned(w) == run[w].train_idx # <<>> \/ run[w].test_idx # <<>>
ResolvedInstant(w, idx) == parse_ts(run[w].timestamps[idx + 1], idx)

\* C23: the train/test partition is chronological: every training row's
\* resolved instant (the insertion index for a timestamp that does not parse)
\* is less than or equal to every test row's, and two runs on the same rows
\* and timestamps have the same partition.
C23_ChronologicalSplit ==
    /\ \A w \in Runs :
          Partitioned(w) =>
              \A a \in 1..Len(run[w].train_idx), b \in 1..Len(run[w].test_idx) :
                  ResolvedInstant(w, run[w].train_idx[a]) <= ResolvedInstant(w, run[w].test_idx[b])
    /\ \A v, w \in Runs :
          (Partitioned(v) /\ Partitioned(w) /\ run[v].timestamps = run[w].timestamps
              /\ run[v].data_len = run[w].data_len) =>
              (run[v].train_idx = run[w].train_idx /\ run[v].test_idx = run[w].test_idx)

\* The positions of a label in y, and the m-th of them (m from 0).
PositionsOf(y, label) == {i \in 1..Len(y) : y[i] = label}
NthOf(positions, m) == CHOOSE i \in positions : Cardinality({j \in positions : j < i}) = m

\* C24: after _oversample_minority(X_train, y_train, rng, m) every class of
\* the input has at least m rows, a class that had m or more keeps its
\* count, the input rows and labels are kept in their order at the front,
\* and the i-th added row of a class is a jittered copy of that class's
\* original row number i mod count and carries the class's label.
C24_OversampleMinority ==
    call.fn = "_oversample_minority" =>
        LET X_train == call.args[1]
            y_train == call.args[2]
            m == call.args[4]
            n == Len(y_train)
            X_aug == call.result.X
            y_aug == call.result.y
            added == [i \in 1..(Len(y_aug) - n) |-> y_aug[n + i]]
        IN  /\ Len(X_aug) = Len(y_aug) /\ Len(y_aug) >= n
            /\ SubSeq(X_aug, 1, n) = X_train /\ SubSeq(y_aug, 1, n) = y_train
            /\ Unique(y_aug) = Unique(y_train)
            /\ \A label \in Unique(y_train) :
                  LET count == CountOf(y_train, label) IN
                  /\ CountOf(y_aug, label) >= m
                  /\ count >= m => CountOf(y_aug, label) = count
                  /\ count < m => CountOf(y_aug, label) = m
                  /\ \A i \in 0..(CountOf(added, label) - 1) :
                        LET src == X_train[NthOf(PositionsOf(y_train, label), i % count)]
                            new_sample == X_aug[n + NthOf(PositionsOf(added, label), i)]
                        IN  \E jitter \in Jitters : new_sample = Jittered(src, jitter)

\* A class of two rows brought to five: the three added rows are copies of
\* its first, its second and again its first row.
C24_Witness ==
    /\ call.fn = "_oversample_minority"
    /\ call.args[4] = 5
    /\ call.args[2] = <<"Normal", "Very Hot", "Normal", "Cold">>
    /\ Len(call.result.y) = 15
    /\ call.result.y[11] = "Normal"
    /\ call.result.X[9].temperature - call.args[1][1].temperature \in Jitters
    /\ call.result.X[10].temperature - call.args[1][3].temperature \in Jitters
    /\ call.result.X[11].temperature - call.args[1][1].temperature \in Jitters

\* The band limits and the priority table as the specification lists them:
\* the band of a value is the number of limits it has reached; rows are the
\* temperature bands cold, cool, normal, warm, hot, very_hot, columns the
\* humidity bands dry, normal, humid, very_humid.
TemperatureLimits == {15, 20, 25, 30, 35}
HumidityLimits == {30, 60, 80}
BandOf(limits, value) == Cardinality({c \in limits : c <= value})
PriorityTable ==
    << <<"Cold", "Cold", "Cool Humid", "Cool Humid">>,
       <<"Cold", "Cold", "Cool Humid", "Cool Humid">>,
       <<"Normal", "Normal", "Normal", "Normal">>,
       <<"Normal", "Normal", "Normal", "Very Humid">>,
       <<"Hot Dry", "Very Hot", "Hot Humid", "Hot Humid">>,
       <<"Hot Dry", "Very Hot", "Hot Humid", "Hot Humid">> >>

C26_PredictedRainTime ==
    call.fn = "forecast_3h" =>
        LET hourly == call.result.hourly_forecast
            rainy == {h \in 1..3 : hourly[h].rain_probability >= RAIN_TIME_THRESHOLD * 10}
        IN  /\ (rainy = {}) <=> ~call.result.predicted_rain_time.set
            /\ \A h \in rainy :
                  (\A g \in rainy : h <= g) =>
                      call.result.predicted_rain_time = TimeAt(hourly[h].timestamp)

\* The readings of a call's history that forecast_3h puts into its series,
\* and the span in ticks of those that _fit_linear uses.
SeriesOfCall ==
    series_of(HistoryOf(call.args[1], call.args[2], call.args[3], call.args[4]), "temperature")
SpanOfCall ==
    LET used == SubSeq(SeriesOfCall, Max(1, Len(SeriesOfCall) - FIT_LAST_POINTS + 1),
                       Len(SeriesOfCall))
        ticks == {used[i].tick : i \in 1..Len(used)}
    IN  IF ticks = {} THEN 0
        ELSE (CHOOSE t \in ticks : \A u \in ticks : u <= t)
             - (CHOOSE t \in ticks : \A u \in ticks : t <= u)
\* A latest reading that the clamps of the hourly values leave as it is.
InsideClamps(latest) ==
    /\ latest.temperature >= TEMP_CLAMP_LO /\ latest.temperature <= TEMP_CLAMP_HI
    /\ latest.humidity >= HUM_CLAMP_LO /\ latest.humidity <= HUM_CLAMP_HI
    /\ latest.light_intensity >= LUX_CLAMP_LO /\ latest.light_intensity <= LUX_CLAMP_HI

\* C27: _fit_linear returns a trend only for a series of at least 3 points
\* whose span is strictly greater than half a minute; in every other case
\* it returns no trend and each hourly projection holds the current value
\* (for a latest reading inside the clamp ranges); and a series of more than
\* 30 points gives what its 30 most recent points give.
C27_FitLinearTrend ==
    call.fn = "forecast_3h" =>
        LET trend == Len(SeriesOfCall) >= FIT_MIN_POINTS /\ 2 * SpanOfCall > TICKS_PER_MINUTE
            history == HistoryOf(call.args[1], call.args[2], call.args[3], call.args[4])
        IN  /\ trend => call.result.fits = <<"fit", "fit", "fit">>
            /\ ~trend =>
                  /\ call.result.fits = <<"None", "None", "None">>
                  /\ InsideClamps(call.args[1]) =>
                        \A h \in 1..3 :
                            /\ call.result.hourly_forecast[h].temperature
                                   = call.result.now.temperature
                            /\ call.result.hourly_forecast[h].humidity
                                   = call.result.now.humidity
                            /\ call.result.hourly_forecast[h].light_intensity
                                   = call.result.now.light_intensity
            /\ Len(history) > FIT_LAST_POINTS /\ call.args[3] = 1 =>
                  call.result = forecast_3h(call.args[1],
                                            SubSeq(history, Len(history) - FIT_LAST_POINTS + 1,
                                                   Len(history)))

C29_NoReadingLost ==
    (cleanup.pc = "sleeping" /\ cleanup.rounds > 0) =>
        /\ Len(local_data) >= Min(received, MAX_LOCAL_READINGS)
        /\ \A i \in 1..Len(local_data) :
              local_data[i].arrival = received - Len(local_data) + i

\* C30: a pending configuration command is cleared only by an ack that names
\* it. Every poll answered while the command id that set_device_config
\* returned last has no accepted ack returns apply_config with that id, and
\* every ack answered with 200 named the command that was in the stored
\* record when its write replaced it (any other ack is rejected and the
\* record stays as it is).
C30_PendingUntilAcked ==
    /\ commands.polled.outstanding # 0 =>
          /\ commands.polled.command = "apply_config"
          /\ commands.polled.command_id = commands.polled.outstanding
    /\ \A a \in Acks :
          (acks[a].pc = "answered" /\ acks[a].status = 200) =>
              acks[a].stored_command = acks[a].command_id
    /\ \A a \in Acks :
          (acks[a].pc = "answered" /\ acks[a].status # 200) =>
              acks[a].stored_command = 0

====
